---- MODULE Spec2Model ----
(***************************************************************************)
(* Model of the mail processing workflow: the enrichment orchestrator      *)
(* (email_processing.py), the folder traversal (extractor.py) and the      *)
(* response parsers.                                                       *)
(*                                                                         *)
(* Text is modelled as a sequence of tokens.  A token is a record          *)
(* [k, n]: k is the kind ("open", "close", "text", "ws", "ctrl", "frag")   *)
(* and n the tag name or the characters of the text.  Character offsets    *)
(* (str.find, slicing) are computed from the tokens' lengths.              *)
(***************************************************************************)
EXTENDS Integers, Sequences, FiniteSets, TLC

VARIABLES
    \* --- enrichment orchestrator (email_processing.py) ---
    total,          \* len(df)
    concurrency,    \* CONCURRENCY
    sleep_between,  \* SLEEP_BETWEEN_BATCHES
    failures,       \* per record: how many of its first remote calls raise
    epc,            \* position of process_all_emails
    i,              \* loop variable of process_all_emails
    batch_indices,  \* indices of the batch being gathered
    task,           \* per record: state of its analyze_email task
    calls,          \* per record: remote calls issued so far
    task_result,    \* per record: value its task returned
    completed,      \* indices in the order their tasks completed
    all_results,    \* the accumulating list
    escaped,        \* an exception reached the caller of process_batch
    \* --- folder traversal (extractor.py) ---
    start_date,     \* <<>> (None) or <<t>>
    end_date,       \* <<>> (None) or <<t>>
    tpc,            \* position of process_folder
    results,        \* List[EmailData]
    excluded_emails, \* List[ExcludedEmail]
    error_emails,   \* List[ProcessingError]
    stats,          \* ProcessingStats
    seen,           \* per item visited: what it was and where it landed
    written,        \* the output tables _save_results wrote
    returned,       \* <<>> or <<what process_folder returned>>
    \* --- the extractor's command line (main of extractor.py) ---
    mpc,            \* position of main
    argv,           \* the --start-date and --end-date flags
    exit_status,    \* <<>> while running, <<n>> once the process exited
    \* --- the workflow orchestrator (run_workflow of workflow.py) ---
    wpc,            \* position of run_workflow
    workflow,       \* auto_process, skip_extraction and the date flags
    outfile,        \* outputs/emails.xlsx: who wrote it and its row count
    steps,          \* what each step of the workflow did
    wret,           \* <<>> or <<what run_workflow returned>>
    \* --- response parsing (analyze_email, parse_xml) ---
    ppc,            \* position of the response pipeline
    response,       \* outcome of client.chat.completions.create
    xml_text,       \* the argument of parse_xml
    parsed,         \* what parse_xml did: [raised, value]
    oracle,         \* what the text is by construction, and who parses it
    \* --- one call of a function of the extractors ---
    fpc,            \* "ready" before the call, "returned" after it
    call,           \* the function called and its arguments
    ret             \* what the call returned

enrichVars == <<total, concurrency, sleep_between, failures, epc, i,
                batch_indices, task, calls, task_result, completed,
                all_results, escaped>>

travVars == <<start_date, end_date, tpc, results, excluded_emails,
              error_emails, stats, seen, written, returned>>

cliVars == <<mpc, argv, exit_status>>

workVars == <<wpc, workflow, outfile, steps, wret>>

parseVars == <<ppc, response, xml_text, parsed, oracle>>

callVars == <<fpc, call, ret>>

vars == <<enrichVars, travVars, parseVars, callVars, cliVars, workVars>>

\* What the steps of each component leave alone.
notEnrich == <<travVars, parseVars, callVars, cliVars, workVars>>
notTrav == <<enrichVars, parseVars, callVars, cliVars, workVars>>
notParse == <<enrichVars, travVars, callVars, cliVars, workVars>>
notCall == <<enrichVars, travVars, parseVars, cliVars, workVars>>
notCli == <<enrichVars, parseVars, callVars, workVars>>
notWork == <<enrichVars, parseVars, callVars>>

-----------------------------------------------------------------------------
\* Bounds of the model.
MaxRecords == 4
MaxConcurrency == 2
MaxItems == 2
MaxTokens == 3
MaxWords == 2

\* clean_body_text(body, max_length=5000)
MaxBodyLength == 5000

\* Pieces of sender addresses: "local@host" and the domain suffix after it.
AddressPieces == {"ana@acme", "bob@corp"}
DomainPieces == {".mx", ".com", ".es"}

\* RETRY_ATTEMPTS = processing_config.get('retry_attempts', 3)
RETRY_ATTEMPTS == 3

-----------------------------------------------------------------------------
\* Tokens.
O(n) == [k |-> "open", n |-> n]
C(n) == [k |-> "close", n |-> n]
T(s) == [k |-> "text", n |-> s]
WS == [k |-> "ws", n |-> " "]
CTRL == [k |-> "ctrl", n |-> "?"]
\* A tag cut in the middle by a slice: "<analys" and the like.
FRAG(n) == [k |-> "frag", n |-> n]

\* Python's None where a text is expected.
NoText == <<[k |-> "none", n |-> "None"]>>

\* Number of characters of a token.
TokLen(t) ==
    CASE t.k = "open" -> Len(t.n) + 2
      [] t.k = "close" -> Len(t.n) + 3
      [] OTHER -> Len(t.n)

RECURSIVE CharLen(_)
CharLen(s) == IF s = <<>> THEN 0 ELSE TokLen(Head(s)) + CharLen(Tail(s))

\* Character offset at which token number p (1-based) of s starts.
OffsetOf(s, p) == CharLen(SubSeq(s, 1, p - 1))

\* str.find(token): the character offset of its first occurrence, -1 if none.
Find(s, t) ==
    IF \E p \in 1..Len(s) : s[p] = t
    THEN LET p == CHOOSE q \in 1..Len(s) :
                      s[q] = t /\ \A r \in 1..(q - 1) : s[r] # t
         IN OffsetOf(s, p)
    ELSE -1

\* Position (1-based) of the first occurrence of t in s, 0 if none.
FirstPos(s, t) ==
    IF \E p \in 1..Len(s) : s[p] = t
    THEN CHOOSE q \in 1..Len(s) : s[q] = t /\ \A r \in 1..(q - 1) : s[r] # t
    ELSE 0

\* str.strip(): leading and trailing whitespace removed.
RECURSIVE LStrip(_)
LStrip(s) == IF s # <<>> /\ Head(s).k = "ws" THEN LStrip(Tail(s)) ELSE s

RECURSIVE RStrip(_)
RStrip(s) ==
    IF s # <<>> /\ s[Len(s)].k = "ws" THEN RStrip(SubSeq(s, 1, Len(s) - 1)) ELSE s

Strip(s) == RStrip(LStrip(s))

-----------------------------------------------------------------------------
\* The sentinel payloads of analyze_email.
SentinelXml(name) ==
    <<O("analysis"), O("record_id"), T("error"), C("record_id"),
      O("company_info"), O("name"), T(name), C("name"), C("company_info"),
      C("analysis")>>

\* content[start_idx:end_idx] of analyze_email, for character offsets.  The
\* slice starts at the "<analysis>" token at position p; it ends either after
\* the first "</analysis>" token or, when there is none, at character 10,
\* which cuts the "<analysis>" tag itself.
ExtractEmbedded(content) ==
    LET open == O("analysis")
        close == C("analysis")
        p == FirstPos(content, open)
        start_idx == Find(content, open)
        end_idx == Find(content, close) + TokLen(close)
        q == FirstPos(content, close)
    IN IF end_idx > start_idx
       THEN IF q = 0 THEN <<FRAG("analysis")>> ELSE SubSeq(content, p, q)
       ELSE content

\* Lines 157-179 of analyze_email: validation of the response content.
ValidateContent(idx, raw) ==
    IF raw = NoText \/ raw = <<>>
    THEN SentinelXml("Empty response")
    ELSE LET content == Strip(raw)
         IN IF content # <<>> /\ Head(content) = O("analysis")
            THEN content
            ELSE IF \E p \in 1..Len(content) : content[p] = O("analysis")
                 THEN ExtractEmbedded(content)
                 ELSE SentinelXml("Invalid XML format")

\* analyze_email without its "except Exception": the exception of the remote
\* call leaves the body.
AnalyzeEmailBodyNoCatch(idx, out) ==
    IF out.raises
    THEN [raised |-> TRUE, value |-> <<>>]
    ELSE [raised |-> FALSE, value |-> ValidateContent(idx, out.content)]

\* The body of analyze_email for one remote call: out is the outcome of
\* client.chat.completions.create, [raises, content].  The value says
\* whether the body itself raised and what it returned.
AnalyzeEmailBody(idx, out) ==
    IF out.raises
    THEN [raised |-> FALSE, value |-> SentinelXml("API Error")]
    ELSE [raised |-> FALSE, value |-> ValidateContent(idx, out.content)]

\* The tenacity decorator: what happens after the body ran for the
\* attempt-th time.  It retries only when the body raised.
RetryDecision(body, attempt) ==
    IF ~body.raised THEN "return"
    ELSE IF attempt < RETRY_ATTEMPTS THEN "retry" ELSE "reraise"

-----------------------------------------------------------------------------
\* Enrichment orchestrator: process_all_emails, process_batch, analyze_email.

Records == 0..(total - 1)

\* A min that always answers its second argument: every batch then runs to
\* the end of the records.
MinIsSecond(a, b) == b

Min(a, b) == IF a < b THEN a ELSE b

\* The completion the service returns for record idx when the call succeeds:
\* an <analysis> document carrying the record's identifier (idx + 1).
Response(idx) ==
    <<O("analysis"), O("record_id"), T(ToString(idx + 1)), C("record_id"),
      C("analysis")>>

\* Outcome of the attempt-th remote call for record idx.
RemoteOutcome(idx, attempt) ==
    IF attempt <= failures[idx]
    THEN [raises |-> TRUE, content |-> <<>>]
    ELSE [raises |-> FALSE, content |-> Response(idx)]

\* A range that leaves out its first index.
RangeSeqSkipFirst(lo, hi) == [p \in 1..(hi - lo - 1) |-> lo + p]

\* list(range(i, batch_end)) as a sequence.
RangeSeq(lo, hi) == [p \in 1..(hi - lo) |-> lo + p - 1]

\* A gather that hands the results back in completion order.
GatherAsCompleted(indices, task_results, done_order) ==
    [p \in 1..Len(done_order) |-> task_results[done_order[p]]]

\* asyncio.gather(*tasks): the tasks' results in the order of the awaitables.
Gather(indices, task_results, done_order) ==
    [p \in 1..Len(indices) |-> task_results[indices[p]]]

EnrichInit ==
    /\ total \in 1..MaxRecords
    /\ concurrency \in 1..MaxConcurrency
    /\ sleep_between \in {0, 1}
    /\ failures \in [0..(total - 1) -> 0..RETRY_ATTEMPTS]
    /\ epc = "loop"
    /\ i = 0
    /\ batch_indices = <<>>
    /\ task = [idx \in 0..(total - 1) |-> "none"]
    /\ calls = [idx \in 0..(total - 1) |-> 0]
    /\ task_result = [idx \in 0..(total - 1) |-> <<>>]
    /\ completed = <<>>
    /\ all_results = <<>>
    /\ escaped = FALSE

\* for i in range(0, total, CONCURRENCY): the batch is formed and
\* process_batch creates one analyze_email task per index.
StartBatch ==
    /\ epc = "loop"
    /\ i < total
    /\ LET batch_end == Min(i + concurrency, total)
       IN /\ batch_indices' = RangeSeq(i, batch_end)
          /\ task' = [idx \in Records |->
                        IF idx >= i /\ idx < batch_end THEN "created"
                        ELSE task[idx]]
    /\ epc' = "gather"
    /\ completed' = <<>>
    /\ UNCHANGED <<total, concurrency, sleep_between, failures, i, calls,
                   task_result, all_results, escaped>>
    /\ UNCHANGED notEnrich

\* A task reaches "await client.chat.completions.create(...)".
IssueCall(idx) ==
    /\ epc = "gather"
    /\ task[idx] = "created"
    /\ task' = [task EXCEPT ![idx] = "inflight"]
    /\ calls' = [calls EXCEPT ![idx] = @ + 1]
    /\ UNCHANGED <<total, concurrency, sleep_between, failures, epc, i,
                   batch_indices, task_result, completed, all_results, escaped>>
    /\ UNCHANGED notEnrich

\* The remote call of a task returns or raises; the body of analyze_email
\* finishes and the retry decorator decides.
CallResolves(idx) ==
    /\ epc = "gather"
    /\ task[idx] = "inflight"
    /\ LET body == AnalyzeEmailBody(idx, RemoteOutcome(idx, calls[idx]))
           decision == RetryDecision(body, calls[idx])
       IN CASE decision = "return" ->
                 /\ task' = [task EXCEPT ![idx] = "done"]
                 /\ task_result' = [task_result EXCEPT ![idx] = body.value]
                 /\ completed' = Append(completed, idx)
                 /\ UNCHANGED <<epc, escaped>>
            [] decision = "retry" ->
                 /\ task' = [task EXCEPT ![idx] = "created"]
                 /\ UNCHANGED <<task_result, completed, epc, escaped>>
            [] OTHER ->
                 \* RetryError leaves gather, process_batch and
                 \* process_all_emails.
                 /\ task' = [task EXCEPT ![idx] = "failed"]
                 /\ epc' = "raised"
                 /\ escaped' = TRUE
                 /\ UNCHANGED <<task_result, completed>>
    /\ UNCHANGED <<total, concurrency, sleep_between, failures, i,
                   batch_indices, calls, all_results>>
    /\ UNCHANGED notEnrich

\* A gather that returns as soon as one task of the batch is done.
GatherReturnEarly ==
    /\ epc = "gather"
    /\ \E p \in 1..Len(batch_indices) : task[batch_indices[p]] = "done"
    /\ all_results' = all_results \o Gather(batch_indices, task_result, completed)
    /\ LET batch_end == Min(i + concurrency, total)
       IN epc' = IF sleep_between > 0 /\ batch_end < total
                 THEN "sleep" ELSE "loop"
    /\ i' = i + concurrency
    /\ UNCHANGED <<total, concurrency, sleep_between, failures, batch_indices,
                   task, calls, task_result, completed, escaped>>
    /\ UNCHANGED notEnrich

\* gather returns once every task of the batch is done; the batch's results
\* are appended and the loop goes on (after the optional sleep).
GatherReturn ==
    /\ epc = "gather"
    /\ \A p \in 1..Len(batch_indices) : task[batch_indices[p]] = "done"
    /\ all_results' = all_results \o Gather(batch_indices, task_result, completed)
    /\ LET batch_end == Min(i + concurrency, total)
       IN epc' = IF sleep_between > 0 /\ batch_end < total
                 THEN "sleep" ELSE "loop"
    /\ i' = i + concurrency
    /\ UNCHANGED <<total, concurrency, sleep_between, failures, batch_indices,
                   task, calls, task_result, completed, escaped>>
    /\ UNCHANGED notEnrich

\* await asyncio.sleep(SLEEP_BETWEEN_BATCHES) is over.
SleepDone ==
    /\ epc = "sleep"
    /\ epc' = "loop"
    /\ UNCHANGED <<total, concurrency, sleep_between, failures, i,
                   batch_indices, task, calls, task_result, completed,
                   all_results, escaped>>
    /\ UNCHANGED notEnrich

\* The range is exhausted: return all_results.
ReturnResults ==
    /\ epc = "loop"
    /\ i >= total
    /\ epc' = "done"
    /\ UNCHANGED <<total, concurrency, sleep_between, failures, i,
                   batch_indices, task, calls, task_result, completed,
                   all_results, escaped>>
    /\ UNCHANGED notEnrich

EnrichNext ==
    \/ StartBatch
    \/ \E idx \in Records : IssueCall(idx)
    \/ \E idx \in Records : CallResolves(idx)
    \/ GatherReturn
    \/ SleepDone
    \/ ReturnResults



-----------------------------------------------------------------------------
\* Strings of the extractor.  A string is a sequence of pieces (words,
\* separators); "" is the empty sequence and Python's None is the value None.

None == <<"<None>">>

\* x or ""
OrEmpty(x) == IF x = None THEN <<>> ELSE x

\* not x, for a string or None
Falsy(x) == x = None \/ x = <<>>

\* str.lower() of one piece.
LowerTable ==
    [p \in {"Argentina", "Australia", "Bolivia", "Brasil", "Brazil", "Canada", "Chile", "China", "Colombia", "Costa Rica", "Cuba", "Dominican Republic", "Ecuador", "El Salvador", "España", "France", "Germany", "Guatemala", "Honduras", "India", "Italy", "Japan", "Mexico", "México", "New Zealand", "Nicaragua", "Panama", "Panamá", "Paraguay", "Peru", "Perú", "Portugal", "Puerto Rico", "República Dominicana", "Spain", "UK", "USA", "United Kingdom", "United States", "Uruguay", "Venezuela", "RFQ", "Quote", "Out of Office", "Hello", ".MX"} |->
        CASE p = "Argentina" -> "argentina"
          [] p = "Australia" -> "australia"
          [] p = "Bolivia" -> "bolivia"
          [] p = "Brasil" -> "brasil"
          [] p = "Brazil" -> "brazil"
          [] p = "Canada" -> "canada"
          [] p = "Chile" -> "chile"
          [] p = "China" -> "china"
          [] p = "Colombia" -> "colombia"
          [] p = "Costa Rica" -> "costa rica"
          [] p = "Cuba" -> "cuba"
          [] p = "Dominican Republic" -> "dominican republic"
          [] p = "Ecuador" -> "ecuador"
          [] p = "El Salvador" -> "el salvador"
          [] p = "España" -> "españa"
          [] p = "France" -> "france"
          [] p = "Germany" -> "germany"
          [] p = "Guatemala" -> "guatemala"
          [] p = "Honduras" -> "honduras"
          [] p = "India" -> "india"
          [] p = "Italy" -> "italy"
          [] p = "Japan" -> "japan"
          [] p = "Mexico" -> "mexico"
          [] p = "México" -> "méxico"
          [] p = "New Zealand" -> "new zealand"
          [] p = "Nicaragua" -> "nicaragua"
          [] p = "Panama" -> "panama"
          [] p = "Panamá" -> "panamá"
          [] p = "Paraguay" -> "paraguay"
          [] p = "Peru" -> "peru"
          [] p = "Perú" -> "perú"
          [] p = "Portugal" -> "portugal"
          [] p = "Puerto Rico" -> "puerto rico"
          [] p = "República Dominicana" -> "república dominicana"
          [] p = "Spain" -> "spain"
          [] p = "UK" -> "uk"
          [] p = "USA" -> "usa"
          [] p = "United Kingdom" -> "united kingdom"
          [] p = "United States" -> "united states"
          [] p = "Uruguay" -> "uruguay"
          [] p = "Venezuela" -> "venezuela"
          [] p = "RFQ" -> "rfq"
          [] p = "Quote" -> "quote"
          [] p = "Out of Office" -> "out of office"
          [] p = "Hello" -> "hello"
          [] p = ".MX" -> ".mx"]

LowerPiece(p) == IF p \in DOMAIN LowerTable THEN LowerTable[p] ELSE p

Lower(s) == [p \in 1..Len(s) |-> LowerPiece(s[p])]

\* kw in s, for a keyword that is one piece of the text.
Contains(s, kw) == \E p \in 1..Len(s) : s[p] = kw

\* A count that counts every occurrence twice.
CountTwice(s, piece) == 2 * Cardinality({p \in 1..Len(s) : s[p] = piece})

\* s.count(piece)
Count(s, piece) == Cardinality({p \in 1..Len(s) : s[p] = piece})

\* ContentAnalyzer.RFQ_KEYWORDS
RFQ_KEYWORDS ==
    <<
        "rfq", "request for quotation", "request for quote", "cotización",
        "cotizacion", "presupuesto", "quote", "quotation",
        "precio", "price", "coste", "cost",
        "oferta", "offer", "propuesta", "proposal",
        "inquiry", "consulta", "información", "informacion",
        "information", "interesado", "interested", "necesito",
        "need", "require", "requerimos", "solicitud",
        "request">>

\* ContentAnalyzer.EXCLUSION_KEYWORDS
EXCLUSION_KEYWORDS ==
    <<
        "out of office", "fuera de la oficina", "automatic reply", "respuesta automática",
        "unsubscribe", "darse de baja", "newsletter", "boletín",
        "do not reply", "no responder", "noreply", "no-reply">>

\* LocationExtractor.COUNTRIES
COUNTRIES ==
    <<
        "España", "Spain", "México", "Mexico",
        "Argentina", "Chile", "Colombia", "Perú",
        "Peru", "Venezuela", "Ecuador", "Bolivia",
        "Paraguay", "Uruguay", "Costa Rica", "Panamá",
        "Panama", "Guatemala", "Honduras", "Nicaragua",
        "El Salvador", "República Dominicana", "Dominican Republic", "Cuba",
        "Puerto Rico", "USA", "United States", "Canada",
        "Brasil", "Brazil", "Portugal", "France",
        "Germany", "Italy", "UK", "United Kingdom",
        "China", "India", "Japan", "Australia",
        "New Zealand">>

\* LocationExtractor.DOMAIN_COUNTRY_MAP, in insertion order.
DOMAIN_COUNTRY_MAP ==
    <<
        <<".es", "Spain">>, <<".mx", "Mexico">>, <<".ar", "Argentina">>,
        <<".cl", "Chile">>, <<".co", "Colombia">>, <<".pe", "Peru">>,
        <<".ve", "Venezuela">>, <<".ec", "Ecuador">>, <<".bo", "Bolivia">>,
        <<".py", "Paraguay">>, <<".uy", "Uruguay">>, <<".cr", "Costa Rica">>,
        <<".pa", "Panama">>, <<".gt", "Guatemala">>, <<".hn", "Honduras">>,
        <<".ni", "Nicaragua">>, <<".sv", "El Salvador">>, <<".do", "Dominican Republic">>,
        <<".cu", "Cuba">>, <<".pr", "Puerto Rico">>, <<".us", "USA">>,
        <<".ca", "Canada">>, <<".br", "Brazil">>, <<".pt", "Portugal">>,
        <<".fr", "France">>, <<".de", "Germany">>, <<".it", "Italy">>,
        <<".uk", "UK">>, <<".cn", "China">>, <<".in", "India">>,
        <<".jp", "Japan">>, <<".au", "Australia">>, <<".nz", "New Zealand">>>>

\* The first element of a list that satisfies a test, as a 0- or 1-element
\* sequence: "for x in list: if test(x): return x".  test[p] is the outcome
\* of the test on list[p].
FirstIn(list, test) ==
    IF \E p \in 1..Len(list) : test[p]
    THEN <<list[CHOOSE p \in 1..Len(list) :
                   test[p] /\ \A r \in 1..(p - 1) : ~test[r]]>>
    ELSE <<>>

-----------------------------------------------------------------------------
\* Message objects of the mail store.  Every accessor is a record [st, v]:
\*   st = "ok"      the accessor returns v
\*   st = "none"    the accessor returns None
\*   st = "missing" the attribute does not exist (AttributeError)
\*   st = "raises"  reading it raises another exception (a COM error)

Acc(st, v) == [st |-> st, v |-> v]

\* The value a successful read yields.
Val(acc) == IF acc.st = "none" THEN None ELSE acc.v

\* Reading the attribute raises (any exception).
ReadFails(acc) == acc.st \in {"missing", "raises"}

\* A timestamp: wall-clock time and whether it carries a timezone.
Time(wall, tz) == [wall |-> wall, tz |-> tz]

\* normalize_datetime: the timezone is dropped, the wall-clock time kept.
normalize_datetime(dt) == [wall |-> dt.wall, tz |-> "naive"]

\* One "try: if hasattr(email, X) and email.X: return normalize(email.X)"
\* of get_date_for_filtering: the value as a 1-element sequence, or <<>> when
\* the attribute is absent, falsy or raises.
TryDate(acc) == IF acc.st = "ok" THEN <<normalize_datetime(acc.v)>> ELSE <<>>

\* A get_date_for_filtering that tries the accessors in the opposite order.
get_date_creation_first(email) ==
    IF TryDate(email.CreationTime) # <<>> THEN TryDate(email.CreationTime)
    ELSE IF TryDate(email.SentOn) # <<>> THEN TryDate(email.SentOn)
    ELSE TryDate(email.ReceivedTime)

\* get_date_for_filtering: ReceivedTime, then SentOn, then CreationTime.
get_date_for_filtering(email) ==
    IF TryDate(email.ReceivedTime) # <<>> THEN TryDate(email.ReceivedTime)
    ELSE IF TryDate(email.SentOn) # <<>> THEN TryDate(email.SentOn)
    ELSE TryDate(email.CreationTime)

\* A _check_date_filter whose bounds are exclusive.
CheckDateFilterExclusive(email, start, end) ==
    LET received_date == get_date_for_filtering(email)
    IN IF received_date = <<>>
       THEN [skip |-> TRUE, reason |-> "error"]
       ELSE IF start # <<>> /\ received_date[1].wall <= start[1].wall
            THEN [skip |-> TRUE, reason |-> "skip"]
            ELSE IF end # <<>> /\ received_date[1].wall >= end[1].wall
                 THEN [skip |-> TRUE, reason |-> "skip"]
                 ELSE [skip |-> FALSE, reason |-> "ok"]

\* EmailProcessor._check_date_filter: (should_skip, reason).  start_date and
\* end_date are <<>> (None) or <<t>>.
CheckDateFilter(email, start, end) ==
    LET received_date == get_date_for_filtering(email)
    IN IF received_date = <<>>
       THEN [skip |-> TRUE, reason |-> "error"]
       ELSE IF start # <<>> /\ received_date[1].wall < start[1].wall
            THEN [skip |-> TRUE, reason |-> "skip"]
            ELSE IF end # <<>> /\ received_date[1].wall > end[1].wall
                 THEN [skip |-> TRUE, reason |-> "skip"]
                 ELSE [skip |-> FALSE, reason |-> "ok"]

\* datetime.strftime('%Y-%m-%d %H:%M:%S'): the wall-clock time as text.
Strftime(dt) == <<ToString(dt.wall)>>

\* An analyze that looks for the RFQ keywords before the exclusion keywords.
AnalyzeRfqFirst(subject, body) ==
    LET combined == Lower(OrEmpty(subject)) \o <<" ">> \o Lower(OrEmpty(body))
        excl == FirstIn(EXCLUSION_KEYWORDS,
                        [p \in 1..Len(EXCLUSION_KEYWORDS) |->
                            Contains(combined, EXCLUSION_KEYWORDS[p])])
        rfq == FirstIn(RFQ_KEYWORDS,
                       [p \in 1..Len(RFQ_KEYWORDS) |->
                           Contains(combined, RFQ_KEYWORDS[p])])
    IN IF Falsy(subject) /\ Falsy(body)
       THEN [qualifies |-> FALSE, reason |-> <<"Empty email">>]
       ELSE IF rfq # <<>>
            THEN [qualifies |-> TRUE, reason |-> <<"RFQ keyword found">>]
            ELSE IF excl # <<>>
                 THEN [qualifies |-> FALSE,
                       reason |-> <<"Auto-reply or notification (keyword: ", excl[1], ")">>]
                 ELSE IF Contains(subject, "?") \/ Count(body, "?") >= 2
                      THEN [qualifies |-> TRUE, reason |-> <<"Contains questions">>]
                      ELSE [qualifies |-> FALSE,
                            reason |-> <<"No RFQ keywords or indicators found">>]

\* ContentAnalyzer.analyze: (qualifies, reason).
Analyze(subject, body) ==
    LET combined == Lower(OrEmpty(subject)) \o <<" ">> \o Lower(OrEmpty(body))
        excl == FirstIn(EXCLUSION_KEYWORDS,
                        [p \in 1..Len(EXCLUSION_KEYWORDS) |->
                            Contains(combined, EXCLUSION_KEYWORDS[p])])
        rfq == FirstIn(RFQ_KEYWORDS,
                       [p \in 1..Len(RFQ_KEYWORDS) |->
                           Contains(combined, RFQ_KEYWORDS[p])])
    IN IF Falsy(subject) /\ Falsy(body)
       THEN [qualifies |-> FALSE, reason |-> <<"Empty email">>]
       ELSE IF excl # <<>>
            THEN [qualifies |-> FALSE,
                  reason |-> <<"Auto-reply or notification (keyword: ", excl[1], ")">>]
            ELSE IF rfq # <<>>
                 THEN [qualifies |-> TRUE, reason |-> <<"RFQ keyword found">>]
                 ELSE IF Contains(subject, "?") \/ Count(body, "?") >= 2
                      THEN [qualifies |-> TRUE, reason |-> <<"Contains questions">>]
                      ELSE [qualifies |-> FALSE,
                            reason |-> <<"No RFQ keywords or indicators found">>]

\* Location(city, state, country)
Location(country) == [city |-> <<>>, state |-> <<>>, country |-> country]

\* LocationExtractor._extract_country_from_email
ExtractCountryFromEmail(email_address) ==
    IF Falsy(email_address) THEN <<>>
    ELSE LET email_lower == Lower(email_address)
             hit == FirstIn(DOMAIN_COUNTRY_MAP,
                            [p \in 1..Len(DOMAIN_COUNTRY_MAP) |->
                                email_lower[Len(email_lower)]
                                    = DOMAIN_COUNTRY_MAP[p][1]])
         IN IF hit = <<>> THEN <<>> ELSE <<hit[1][2]>>

\* LocationExtractor._extract_country_from_text
ExtractCountryFromText(text) ==
    IF text = <<>> THEN <<>>
    ELSE LET text_lower == Lower(text)
             hit == FirstIn(COUNTRIES,
                            [p \in 1..Len(COUNTRIES) |->
                                Contains(text_lower, LowerPiece(COUNTRIES[p]))])
         IN IF hit = <<>> THEN <<>> ELSE <<hit[1]>>

\* A resolver that scans the text first and the address only after it.
LocationExtractTextFirst(subject, body, email_address) ==
    LET country == ExtractCountryFromText(subject \o <<" ">> \o body)
    IN IF country # <<>>
       THEN Location(country)
       ELSE Location(ExtractCountryFromEmail(email_address))

\* LocationExtractor.extract
LocationExtract(subject, body, email_address) ==
    LET country == ExtractCountryFromEmail(email_address)
    IN IF country # <<>>
       THEN Location(country)
       ELSE Location(ExtractCountryFromText(subject \o <<" ">> \o body))

\* Whitespace pieces of a text.
IsSpace(p) == p \in {" ", "\n", "\r\n", "  "}

\* re.sub(r'\s+', ' ', body): every run of whitespace becomes one blank.
RECURSIVE CollapseSpace(_)
CollapseSpace(s) ==
    IF s = <<>> THEN <<>>
    ELSE IF IsSpace(Head(s))
         THEN LET rest == CollapseSpace(Tail(s))
              IN IF rest # <<>> /\ Head(rest) = " " THEN rest ELSE <<" ">> \o rest
         ELSE <<Head(s)>> \o CollapseSpace(Tail(s))

RECURSIVE TextLen(_)
TextLen(s) == IF s = <<>> THEN 0 ELSE Len(Head(s)) + TextLen(Tail(s))

RECURSIVE TrimLeft(_)
TrimLeft(s) == IF s # <<>> /\ IsSpace(Head(s)) THEN TrimLeft(Tail(s)) ELSE s

RECURSIVE TrimRight(_)
TrimRight(s) ==
    IF s # <<>> /\ IsSpace(s[Len(s)]) THEN TrimRight(SubSeq(s, 1, Len(s) - 1))
    ELSE s

\* body[:max_length] for a text whose pieces are kept whole while they fit.
RECURSIVE TakeChars(_, _)
TakeChars(s, n) ==
    IF s = <<>> \/ Len(Head(s)) > n THEN <<>>
    ELSE <<Head(s)>> \o TakeChars(Tail(s), n - Len(Head(s)))

\* clean_body_text(body, max_length=5000)
clean_body_text(body) ==
    IF Falsy(body) THEN <<>>
    ELSE LET collapsed == CollapseSpace(body)
             cut == IF TextLen(collapsed) > MaxBodyLength
                    THEN TakeChars(collapsed, MaxBodyLength) \o <<"... [truncated]">>
                    ELSE collapsed
         IN TrimRight(TrimLeft(cut))

\* extract_email_address: the address between angle brackets, else the
\* piece that looks like an address (contains "@") with the domain pieces
\* that follow it, else the stripped string.
extract_email_address(email_str) ==
    IF Falsy(email_str) THEN <<>>
    ELSE LET lt == FirstPos(email_str, "<")
             gt == IF lt = 0 \/ lt = Len(email_str) \/ email_str[lt + 1] = ">" THEN 0
                   ELSE IF \E p \in (lt + 2)..Len(email_str) : email_str[p] = ">"
                        THEN CHOOSE p \in (lt + 2)..Len(email_str) :
                                 /\ email_str[p] = ">"
                                 /\ \A r \in (lt + 2)..(p - 1) : email_str[r] # ">"
                        ELSE 0
             IsAddr(p) == p \in AddressPieces
             at == IF \E p \in 1..Len(email_str) : IsAddr(email_str[p])
                   THEN CHOOSE p \in 1..Len(email_str) :
                            /\ IsAddr(email_str[p])
                            /\ \A r \in 1..(p - 1) : ~IsAddr(email_str[r])
                   ELSE 0
         IN IF gt # 0
            THEN TrimRight(TrimLeft(SubSeq(email_str, lt + 1, gt - 1)))
            ELSE IF at # 0 /\ at < Len(email_str) /\ email_str[at + 1] \in DomainPieces
                 THEN SubSeq(email_str, at, at + 1)
                 ELSE TrimRight(TrimLeft(email_str))

-----------------------------------------------------------------------------
\* EmailExtractor.extract

\* "; ".join(names)
RECURSIVE JoinNames(_)
JoinNames(names) ==
    IF names = <<>> THEN <<>>
    ELSE IF Len(names) = 1 THEN names[1]
    ELSE names[1] \o <<"; ">> \o JoinNames(Tail(names))

\* The FileName of every attachment that can be read, in order.
RECURSIVE FileNames(_)
FileNames(atts) ==
    IF atts = <<>> THEN <<>>
    ELSE IF ReadFails(Head(atts)) THEN FileNames(Tail(atts))
    ELSE <<Val(Head(atts))>> \o FileNames(Tail(atts))

\* One "try: field = <read>; except Exception: error_tags.append(tag)".
\* read is the value of <read>, evaluated only when the accessor returns.
Field(acc, tag, read) ==
    IF ReadFails(acc)
    THEN [value |-> <<>>, tags |-> <<tag>>]
    ELSE [value |-> read, tags |-> <<>>]

extract(email) ==
    LET from_name == Field(email.SenderName, "ERROR_FROM_NAME",
                           OrEmpty(Val(email.SenderName)))
        from_email == Field(email.SenderEmailAddress, "ERROR_FROM_EMAIL",
                extract_email_address(OrEmpty(Val(email.SenderEmailAddress))))
        to == Field(email.To, "ERROR_TO", OrEmpty(Val(email.To)))
        cc == Field(email.CC, "ERROR_CC", OrEmpty(Val(email.CC)))
        \* hasattr(email, 'ReceivedTime') and email.ReceivedTime
        date == CASE email.ReceivedTime.st = "ok" ->
                       [value |-> Strftime(email.ReceivedTime.v), tags |-> <<>>]
                  [] email.ReceivedTime.st = "raises" ->
                       [value |-> <<>>, tags |-> <<"ERROR_DATE">>]
                  [] OTHER -> [value |-> <<>>, tags |-> <<>>]
        subject == Field(email.Subject, "ERROR_SUBJECT",
                         OrEmpty(Val(email.Subject)))
        body == Field(email.Body, "ERROR_BODY",
                      clean_body_text(OrEmpty(Val(email.Body))))
        \* hasattr(email, 'Attachments'), then the loop over the attachments
        attachments ==
            CASE email.Attachments.st = "ok" ->
                   [value |-> JoinNames(FileNames(email.Attachments.v)),
                    tags |-> <<>>]
              [] email.Attachments.st = "missing" ->
                   [value |-> <<>>, tags |-> <<>>]
              [] OTHER -> [value |-> <<>>, tags |-> <<"ERROR_ATTACHMENTS">>]
    IN [raised |-> FALSE,
        value |->
          [from_name |-> from_name.value,
           from_email |-> from_email.value,
           to |-> to.value,
           cc |-> cc.value,
           date |-> date.value,
           subject |-> subject.value,
           body |-> body.value,
           attachments |-> attachments.value,
           location |-> <<LocationExtract(subject.value, body.value,
                                          from_email.value)>>,
           error_tags |-> from_name.tags \o from_email.tags \o to.tags
                          \o cc.tags \o date.tags \o subject.tags \o body.tags
                          \o attachments.tags]]

-----------------------------------------------------------------------------
\* EmailProcessor._create_excluded_email: the ExcludedEmail as a 1-element
\* sequence, or <<>> (None) when building it raises.
CreateExcludedEmail(email, subject, body, reason) ==
    LET addr == email.SenderEmailAddress
        \* hasattr(email, 'SenderEmailAddress') is False for a missing one
        sender_email_addr == IF addr.st = "missing" THEN <<>> ELSE Val(addr)
        rt == email.ReceivedTime
    IN IF \/ addr.st = "raises"
          \/ ReadFails(email.SenderName)
          \* email.ReceivedTime.strftime(...) if hasattr(email, 'ReceivedTime')
          \/ rt.st \in {"raises", "none"}
       THEN <<>>
       ELSE <<[from_name |-> OrEmpty(Val(email.SenderName)),
               from_email |-> sender_email_addr,
               date |-> IF rt.st = "missing" THEN <<>> ELSE Strftime(rt.v),
               subject |-> subject,
               location |-> LocationExtract(subject, body, sender_email_addr),
               exclusion_reason |-> reason,
               body |-> clean_body_text(body)]>>

\* ProcessingError(error=..., subject=getattr(item, 'Subject', 'Unknown'),
\* date=""): getattr's default covers only a missing attribute; any other
\* exception of the accessor leaves _process_items.
CreateProcessingError(item) ==
    IF item.Subject.st = "raises"
    THEN [raised |-> TRUE, value |-> <<>>]
    ELSE [raised |-> FALSE,
          value |-> <<[error |-> <<"Cannot read date (date filtering active)">>,
                       subject |-> IF item.Subject.st = "missing"
                                   THEN <<"Unknown">> ELSE Val(item.Subject),
                       date |-> <<>>]>>]

\* Step 2 of the loop body: (outcome, subject, body, reason) where outcome is
\* "accept" (qualifies, or the try block raised: fail-open) or "exclude".
ContentStep(item) ==
    IF ReadFails(item.Subject) \/ ReadFails(item.Body)
    THEN [outcome |-> "accept", subject |-> <<>>, body |-> <<>>, reason |-> <<>>]
    ELSE LET subject == OrEmpty(Val(item.Subject))
             body == OrEmpty(Val(item.Body))
             a == Analyze(subject, body)
         IN [outcome |-> IF a.qualifies THEN "accept" ELSE "exclude",
             subject |-> subject, body |-> body, reason |-> a.reason]

\* A loop body that checks the date of every item, filter or no filter.
ProcessItemAlwaysChecked(item, start, end, acc) ==
    LET check == CheckDateFilter(item, start, end)
        step == ContentStep(item)
        err == CreateProcessingError(item)
        excl == CreateExcludedEmail(item, step.subject, step.body, step.reason)
        data == extract(item)
    IN IF check.reason = "error"
       THEN IF err.raised
            THEN [acc EXCEPT !.raised = TRUE]
            ELSE [acc EXCEPT !.error_emails = @ \o err.value]
       ELSE IF check.skip
            THEN [acc EXCEPT !.filtered_by_date = @ + 1]
            ELSE IF step.outcome = "exclude"
                 THEN [acc EXCEPT !.excluded_emails = @ \o excl]
                 ELSE IF data.raised
                      THEN [acc EXCEPT !.raised = TRUE]
                      ELSE [acc EXCEPT !.results = Append(@, data.value)]

\* The body of "for item in target_folder.Items" after the counter: the new
\* lists and counter, and whether an exception left the loop.
ProcessItem(item, start, end, acc) ==
    LET check == CheckDateFilter(item, start, end)
        filtering == start # <<>> \/ end # <<>>
        step == ContentStep(item)
        err == CreateProcessingError(item)
        excl == CreateExcludedEmail(item, step.subject, step.body, step.reason)
        data == extract(item)
    IN IF filtering /\ check.reason = "error"
       THEN IF err.raised
            THEN [acc EXCEPT !.raised = TRUE]
            ELSE [acc EXCEPT !.error_emails = @ \o err.value]
       ELSE IF filtering /\ check.skip
            THEN [acc EXCEPT !.filtered_by_date = @ + 1]
            ELSE IF step.outcome = "exclude"
                 THEN [acc EXCEPT !.excluded_emails = @ \o excl]
                 ELSE IF data.raised
                      THEN [acc EXCEPT !.raised = TRUE]
                      ELSE [acc EXCEPT !.results = Append(@, data.value)]

-----------------------------------------------------------------------------
\* Folder traversal: EmailProcessor.process_folder and _process_items.

\* ProcessingStats()
NewStats ==
    [total_items |-> 0, extracted_count |-> 0, excluded_count |-> 0,
     error_count |-> 0, filtered_by_date |-> 0, complete_count |-> 0,
     partial_error_count |-> 0, error_breakdown |-> <<>>]

\* The tags of a list of records, concatenated.
RECURSIVE AllTags(_)
AllTags(list) ==
    IF list = <<>> THEN <<>> ELSE Head(list).error_tags \o AllTags(Tail(list))

\* A _calculate_stats that counts every accepted record as complete.
CalculateStatsAllComplete(st, res, excluded, errors) ==
    LET tags == AllTags(res)
        tagset == {tags[p] : p \in 1..Len(tags)}
    IN [st EXCEPT
          !.excluded_count = Len(excluded),
          !.error_count = Len(errors),
          !.extracted_count = Len(res),
          !.partial_error_count =
              @ + Cardinality({p \in 1..Len(res) : res[p].error_tags # <<>>}),
          !.complete_count = @ + Len(res),
          !.error_breakdown = [t \in tagset |-> Count(tags, t)]]

\* EmailProcessor._calculate_stats; error_breakdown is the dict as a function
\* from the tags that occur to their counts.
CalculateStats(st, res, excluded, errors) ==
    LET tags == AllTags(res)
        tagset == {tags[p] : p \in 1..Len(tags)}
    IN [st EXCEPT
          !.excluded_count = Len(excluded),
          !.error_count = Len(errors),
          !.extracted_count = Len(res),
          !.partial_error_count =
              @ + Cardinality({p \in 1..Len(res) : res[p].error_tags # <<>>}),
          !.complete_count =
              @ + Cardinality({p \in 1..Len(res) : res[p].error_tags = <<>>}),
          !.error_breakdown = [t \in tagset |-> Count(tags, t)]]

\* Wall-clock times of the items and of the filter bounds.
TimeValues == {1, 2, 3}
FilterChoices == {<<>>, <<Time(2, "naive")>>}

\* Every value a bound may take: None or one of the times.
DateBounds == {<<>>} \cup {<<Time(w, "naive")>> : w \in TimeValues}

\* The three timestamp accessors of an item, <<ReceivedTime, SentOn,
\* CreationTime, wall-clock time>>: readable at once, readable through a
\* fallback, or not readable at all.
DateProfiles ==
    {<<"ok", "ok", "ok", w>> : w \in TimeValues}
    \cup {<<"raises", "ok", "ok", 2>>, <<"none", "ok", "ok", 2>>,
          <<"missing", "raises", "ok", 2>>,
          <<"raises", "raises", "raises", 2>>, <<"none", "missing", "none", 2>>}

\* Subject and Body accessors of an item.
ContentProfiles ==
    {<<Acc("ok", <<"RFQ">>), Acc("ok", <<"please", "\n", "quote">>)>>,
     <<Acc("ok", <<"Hello">>), Acc("none", <<>>)>>,
     <<Acc("raises", <<>>), Acc("ok", <<"quote">>)>>,
     <<Acc("missing", <<>>), Acc("ok", <<"Hello">>)>>,
     <<Acc("ok", <<"RFQ">>), Acc("raises", <<>>)>>}

MakeItem(d, c, name) ==
    [ReceivedTime |-> Acc(d[1], Time(d[4], "aware")),
     SentOn |-> Acc(d[2], Time(d[4], "aware")),
     CreationTime |-> Acc(d[3], Time(d[4], "aware")),
     Subject |-> c[1], Body |-> c[2],
     SenderName |-> name,
     SenderEmailAddress |-> Acc("ok", <<"Ana", " ", "<", "ana@acme", ".mx", ">">>),
     To |-> Acc("ok", <<"sales@corp", ".com">>),
     CC |-> Acc("none", <<>>),
     Attachments |-> Acc("ok", <<Acc("ok", <<"specs.pdf">>)>>)]

\* The message objects the folder may yield: every date profile with every
\* content profile, and items whose sender name cannot be read.
Items ==
    {MakeItem(d, c, Acc("ok", <<"Ana">>)) :
        d \in DateProfiles, c \in ContentProfiles}
    \cup {MakeItem(d, c, Acc("raises", <<>>)) :
            d \in {<<"ok", "ok", "ok", 2>>, <<"raises", "raises", "raises", 2>>},
            c \in {c \in ContentProfiles : c[1].st = "ok" /\ c[2].st # "raises"}}

\* What an item is, independently of how the loop reads it.
DateReadable(item) ==
    \E f \in {"ReceivedTime", "SentOn", "CreationTime"} : item[f].st = "ok"

InRange(item, start, end) ==
    /\ DateReadable(item)
    /\ start # <<>> => item.ReceivedTime.v.wall >= start[1].wall
    /\ end # <<>> => item.ReceivedTime.v.wall <= end[1].wall

\* Some accessor other than the timestamps fails.
OtherAccessorFails(item) ==
    \E f \in {"Subject", "Body", "SenderName", "SenderEmailAddress", "To",
              "CC", "Attachments"} : ReadFails(item[f])

\* Where the item landed, read off the lists before and after.
Landed(before, after) ==
    CASE after.raised -> "raised"
      [] Len(after.results) = Len(before.results) + 1 -> "accepted"
      [] Len(after.excluded_emails) = Len(before.excluded_emails) + 1 -> "excluded"
      [] Len(after.error_emails) = Len(before.error_emails) + 1 -> "errors"
      [] after.filtered_by_date = before.filtered_by_date + 1 -> "filtered"
      [] OTHER -> "nowhere"

Summary(item, start, end, before, after) ==
    [date |-> IF ~DateReadable(item) THEN "unreadable"
              ELSE IF InRange(item, start, end) THEN "in" ELSE "out",
     wall |-> item.ReceivedTime.v.wall,
     content |-> IF ReadFails(item.Subject) \/ ReadFails(item.Body)
                 THEN "raises"
                 ELSE IF Analyze(Val(item.Subject), Val(item.Body)).qualifies
                      THEN "qualifies" ELSE "rejected",
     subject_fails |-> item.Subject.st = "raises",
     other_fails |-> OtherAccessorFails(item),
     kept |-> SubSeq(after.results, Len(before.results) + 1,
                     Len(after.results))
              \o SubSeq(after.excluded_emails, Len(before.excluded_emails) + 1,
                        Len(after.excluded_emails))
              \o SubSeq(after.error_emails, Len(before.error_emails) + 1,
                        Len(after.error_emails)),
     landed |-> Landed(before, after)]

TravIdle ==
    /\ start_date = <<>>
    /\ end_date = <<>>
    /\ tpc = "idle"
    /\ results = <<>>
    /\ excluded_emails = <<>>
    /\ error_emails = <<>>
    /\ stats = NewStats
    /\ seen = <<>>
    /\ written = {}
    /\ returned = <<>>

TravInit ==
    /\ start_date \in FilterChoices
    /\ end_date \in FilterChoices
    /\ tpc = "start"
    /\ results = <<>>
    /\ excluded_emails = <<>>
    /\ error_emails = <<>>
    /\ stats = NewStats
    /\ seen = <<>>
    /\ written = {}
    /\ returned = <<>>

\* What process_folder returns from its "except Exception" and after
\* _save_results: (success, stats, output_path), None as <<>>.
\* A failure that still hands out the statistics and the output path.
FailureWithStats ==
    [success |-> FALSE, stats |-> <<NewStats>>, output_path |-> <<"output">>]

Failure == [success |-> FALSE, stats |-> <<>>, output_path |-> <<>>]
Success(st) == [success |-> TRUE, stats |-> <<st>>, output_path |-> <<"output">>]

\* EmailProcessor._save_results: a table is written only for a list that is
\* not empty.
SaveResults(res, excluded, errors) ==
    {t \in {"output"} : res # <<>>}
    \cup {t \in {"excluded"} : excluded # <<>>}
    \cup {t \in {"errors"} : errors # <<>>}

\* outlook_connector.connect() and get_folder(...) succeed.
FolderResolved ==
    /\ tpc = "start"
    /\ tpc' = "loop"
    /\ UNCHANGED <<start_date, end_date, results, excluded_emails,
                   error_emails, stats, seen, written, returned>>
    /\ UNCHANGED notTrav

\* connect() or get_folder(...) raises: process_folder returns
\* (False, None, None).
ConnectFails ==
    /\ tpc = "start"
    /\ tpc' = "connect_failed"
    /\ returned' = <<Failure>>
    /\ UNCHANGED <<start_date, end_date, results, excluded_emails,
                   error_emails, stats, seen, written>>
    /\ UNCHANGED notTrav

\* The accumulators of _process_items before the first item.
EmptyAcc ==
    [results |-> <<>>, excluded_emails |-> <<>>, error_emails |-> <<>>,
     filtered_by_date |-> 0, raised |-> FALSE]

\* The loop body only appends to the lists and increments the counter, so
\* what it does to an item is what it adds to empty accumulators.  For every
\* filter setting: the additions of every item of Items, with the item's
\* summary.
Outcomes ==
    [f \in DateBounds \X DateBounds |->
        {[added |-> ProcessItem(item, f[1], f[2], EmptyAcc),
          summary |-> Summary(item, f[1], f[2], EmptyAcc,
                              ProcessItem(item, f[1], f[2], EmptyAcc))] :
            item \in Items}]

\* An iteration that puts what it keeps at the head of the lists.
VisitItemPrepend ==
    /\ tpc = "loop"
    /\ stats.total_items < MaxItems
    /\ \E o \in Outcomes[<<start_date, end_date>>] :
          /\ IF o.added.raised
             THEN /\ tpc' = "aborted"
                  /\ results' = <<>>
                  /\ excluded_emails' = <<>>
                  /\ error_emails' = <<>>
                  /\ stats' = NewStats
                  /\ returned' = <<Failure>>
             ELSE /\ tpc' = "loop"
                  /\ results' = o.added.results \o results
                  /\ excluded_emails' = o.added.excluded_emails \o excluded_emails
                  /\ error_emails' = o.added.error_emails \o error_emails
                  /\ stats' = [stats EXCEPT
                                 !.total_items = @ + 1,
                                 !.filtered_by_date = @ + o.added.filtered_by_date]
                  /\ UNCHANGED returned
          /\ seen' = Append(seen, o.summary)
    /\ UNCHANGED <<start_date, end_date, written>>
    /\ UNCHANGED notTrav

\* One iteration of "for item in target_folder.Items".
VisitItem ==
    /\ tpc = "loop"
    /\ stats.total_items < MaxItems
    /\ \E o \in Outcomes[<<start_date, end_date>>] :
          /\ IF o.added.raised
             THEN \* an exception leaves _process_items and its lists are
                  \* lost: process_folder returns (False, None, None)
                  /\ tpc' = "aborted"
                  /\ results' = <<>>
                  /\ excluded_emails' = <<>>
                  /\ error_emails' = <<>>
                  /\ stats' = NewStats
                  /\ returned' = <<Failure>>
             ELSE /\ tpc' = "loop"
                  /\ results' = results \o o.added.results
                  /\ excluded_emails' = excluded_emails \o o.added.excluded_emails
                  /\ error_emails' = error_emails \o o.added.error_emails
                  /\ stats' = [stats EXCEPT
                                 !.total_items = @ + 1,
                                 !.filtered_by_date = @ + o.added.filtered_by_date]
                  /\ UNCHANGED returned
          /\ seen' = Append(seen, o.summary)
    /\ UNCHANGED <<start_date, end_date, written>>
    /\ UNCHANGED notTrav

\* The folder is exhausted: _calculate_stats, print(stats), _save_results,
\* and process_folder returns (True, stats, output_path).
FinishTraversal ==
    /\ tpc = "loop"
    /\ stats' = CalculateStats(stats, results, excluded_emails, error_emails)
    /\ written' = SaveResults(results, excluded_emails, error_emails)
    /\ returned' = <<Success(stats')>>
    /\ tpc' = "done"
    /\ UNCHANGED <<start_date, end_date, results, excluded_emails,
                   error_emails, seen>>
    /\ UNCHANGED notTrav

TravNext ==
    \/ FolderResolved
    \/ ConnectFails
    \/ VisitItem
    \/ FinishTraversal

-----------------------------------------------------------------------------
\* Response parsing: parse_xml of email_processing.py.  A field value is a
\* string, written as a sequence of pieces ("" is <<>>).

\* The nine keys of the dict parse_xml returns.
SchemaKeys ==
    {"record_id", "company_name", "company_website", "company_country",
     "email_category", "product_category", "equipment_requested",
     "technical_specifications", "subject_body_correlation"}

\* The path root.findtext looks each key up by.
PathOf(key) ==
    CASE key = "company_name" -> <<"company_info", "name">>
      [] key = "company_website" -> <<"company_info", "website">>
      [] key = "company_country" -> <<"company_info", "country">>
      [] OTHER -> <<key>>

\* The default root.findtext is given for each key.
DefaultOf(key) ==
    CASE key = "record_id" -> "Not found"
      [] key = "company_website" -> "Not mentioned"
      [] key = "technical_specifications" -> "None specified"
      [] OTHER -> "Not specified"

\* A sentinel dict: record_id names the failure, the other eight fields carry
\* one filler.
Sentinel(record_id, filler) ==
    [key \in SchemaKeys |->
        IF key = "record_id" THEN <<record_id>> ELSE <<filler>>]

\* re.sub(r"[\x00-\x08\x0B\x0C\x0E-\x1F]", "", xml_text)
RemoveControl(s) == SelectSeq(s, LAMBDA t : t.k # "ctrl")

\* An element of the tree: its tag, the index of its parent (0 for the root),
\* its text (the character data before its first child) and whether that text
\* can still grow.
Element(tag, parent) ==
    [tag |-> tag, parent |-> parent, text |-> <<>>, open |-> TRUE]

\* ET.fromstring: the tokens are read in order, stack holds the indices of
\* the elements still open.  ok = FALSE is ET.ParseError.
RECURSIVE FromString(_, _, _)
FromString(s, stack, elems) ==
    IF s = <<>>
    THEN \* "no element found" / "unclosed token"
         [ok |-> stack = <<>> /\ elems # <<>>, elems |-> elems]
    ELSE LET t == Head(s)
             top == stack[Len(stack)]
             fail == [ok |-> FALSE, elems |-> <<>>]
         IN CASE t.k = "open" ->
                   IF stack = <<>> /\ elems # <<>>
                   THEN fail  \* junk after document element
                   ELSE LET parent == IF stack = <<>> THEN 0 ELSE top
                            before ==
                                IF parent = 0 THEN elems
                                ELSE [elems EXCEPT ![parent].open = FALSE]
                        IN FromString(Tail(s),
                                      Append(stack, Len(elems) + 1),
                                      Append(before, Element(t.n, parent)))
              [] t.k = "close" ->
                   IF stack = <<>> \/ elems[top].tag # t.n
                   THEN fail  \* mismatched tag
                   ELSE FromString(Tail(s),
                                   SubSeq(stack, 1, Len(stack) - 1),
                                   [elems EXCEPT ![top].open = FALSE])
              [] t.k = "ws" /\ stack = <<>> ->
                   FromString(Tail(s), stack, elems)
              [] t.k \in {"text", "ws"} ->
                   IF stack = <<>>
                   THEN fail  \* syntax error / junk after document element
                   ELSE FromString(Tail(s), stack,
                            IF elems[top].open
                            THEN [elems EXCEPT ![top].text = Append(@, t.n)]
                            ELSE elems)
              [] OTHER -> fail  \* not well-formed (invalid token)

\* The elements root.findall(path) yields, by index (document order).
FindAll(elems, path) ==
    {e \in 1..Len(elems) :
        IF Len(path) = 1
        THEN elems[e].parent = 1 /\ elems[e].tag = path[1]
        ELSE /\ elems[e].tag = path[2]
             /\ elems[e].parent # 0
             /\ elems[elems[e].parent].tag = path[1]
             /\ elems[elems[e].parent].parent = 1}

\* A findtext that answers "" for an absent element.
FindTextNoDefault(elems, path, default) ==
    LET found == FindAll(elems, path)
    IN IF found = {} THEN <<>>
       ELSE elems[CHOOSE e \in found : \A f \in found : e <= f].text

\* root.findtext(path, default): the text of the first match ("" when it has
\* none), the default when nothing matches.
FindText(elems, path, default) ==
    LET found == FindAll(elems, path)
    IN IF found = {} THEN <<default>>
       ELSE elems[CHOOSE e \in found : \A f \in found : e <= f].text

\* An object that is neither None nor a string (re.sub raises TypeError).
NotText == <<[k |-> "object", n |-> "5"]>>

\* parse_xml without its "except ET.ParseError".
OnParseErrorReraise(text) == [raised |-> TRUE, value |-> <<>>]

\* except ET.ParseError: the "XML parse error" dict.
OnParseError(text) ==
    [raised |-> FALSE, value |-> Sentinel("XML parse error", "Parse error")]

\* parse_xml(xml_text): whether it raised, and the dict it returned.
parse_xml(text) ==
    IF text = NoText \/ text = <<>>
    THEN [raised |-> FALSE, value |-> Sentinel("Empty response", "N/A")]
    ELSE IF text = NotText
    THEN \* except Exception
         [raised |-> FALSE, value |-> Sentinel("Unexpected error", "Error")]
    ELSE LET xml_clean == RemoveControl(text)
             root == FromString(xml_clean, <<>>, <<>>)
         IN IF Strip(xml_clean) = <<>>
            THEN [raised |-> FALSE,
                  value |-> Sentinel("Empty after cleaning", "N/A")]
            ELSE IF root.ok
            THEN [raised |-> FALSE,
                  value |-> [key \in SchemaKeys |->
                      FindText(root.elems, PathOf(key), DefaultOf(key))]]
            ELSE OnParseError(text)

-----------------------------------------------------------------------------
\* The texts the response pipeline is run on.  Each case is a text together
\* with what it is by construction: kind and, for a document, the field
\* values it carries.

\* The text each field carries in the documents below.
FieldValue(key) ==
    CASE key = "record_id" -> "7"
      [] key = "company_name" -> "Acme"
      [] key = "company_website" -> "acme.mx"
      [] key = "company_country" -> "Mexico"
      [] key = "email_category" -> "RFQ"
      [] key = "product_category" -> "Pumps"
      [] key = "equipment_requested" -> "Pump P-100"
      [] key = "technical_specifications" -> "50 Hz"
      [] OTHER -> "High"

\* <tag>value</tag> when the key is among the present ones.
Leaf(tag, key, present) ==
    IF key \in present THEN <<O(tag), T(FieldValue(key)), C(tag)>> ELSE <<>>

\* The <analysis> document of the output contract carrying the present keys.
Document(present) ==
    LET info == Leaf("name", "company_name", present)
                \o Leaf("website", "company_website", present)
                \o Leaf("country", "company_country", present)
    IN <<O("analysis")>>
       \o Leaf("record_id", "record_id", present)
       \o (IF info = <<>> THEN <<>>
           ELSE <<O("company_info")>> \o info \o <<C("company_info")>>)
       \o Leaf("email_category", "email_category", present)
       \o Leaf("product_category", "product_category", present)
       \o Leaf("equipment_requested", "equipment_requested", present)
       \o Leaf("technical_specifications", "technical_specifications", present)
       \o Leaf("subject_body_correlation", "subject_body_correlation", present)
       \o <<C("analysis")>>

\* What the contract says a document with these keys present stands for.
Expected(present) ==
    [key \in SchemaKeys |->
        IF key \in present THEN <<FieldValue(key)>> ELSE <<DefaultOf(key)>>]

\* Harmless variations of a document.
Decorate(doc, how) ==
    CASE how = "spaced" -> <<WS>> \o doc \o <<WS>>
      [] how = "control" -> <<Head(doc), CTRL>> \o Tail(doc)
      [] OTHER -> doc

\* Ways a document is damaged.
Damage(doc, how) ==
    CASE how = "unclosed" -> SubSeq(doc, 1, Len(doc) - 1)
      [] how = "mismatched" ->
           SubSeq(doc, 1, Len(doc) - 1) \o <<C("analisis")>>
      [] how = "junk_after" -> doc \o <<T("Hope this helps")>>
      [] OTHER -> SubSeq(doc, 1, Len(doc) - 1) \o <<FRAG("analysis")>>

\* One "name": "value", of a JSON object.
JsonPair(name, value) == <<T(name), T(":"), T(value), T(",")>>

\* The JSON object prompts.py asks the service for.
JsonDocument(f) ==
    <<T("{")>>
    \o JsonPair("record_id", f.record_id[1])
    \o <<T("company_info"), T(":"), T("{")>>
    \o JsonPair("name", f.company_name[1])
    \o JsonPair("website", f.company_website[1])
    \o JsonPair("country", f.company_country[1])
    \o <<T("}"), T(",")>>
    \o JsonPair("email_category", f.email_category[1])
    \o JsonPair("product_category", f.product_category[1])
    \o JsonPair("equipment_requested", f.equipment_requested[1])
    \o JsonPair("technical_specifications", f.technical_specifications[1])
    \o JsonPair("subject_body_correlation", f.subject_body_correlation[1])
    \o <<T("}")>>

\* Tokens of the arbitrary texts; CTRL is a control character that
\* str.strip() keeps (such as \x01).
Alphabet ==
    {O("analysis"), C("analysis"), O("record_id"), C("record_id"),
     T("7"), WS, CTRL}

TokenSeqs == UNION {[1..n -> Alphabet] : n \in 0..MaxTokens}

Case(text, kind, fields) == [text |-> text, kind |-> kind, fields |-> fields]

Cases ==
    {Case(Decorate(Document(present), how), "document", Expected(present)) :
        present \in SUBSET SchemaKeys, how \in {"plain", "spaced", "control"}}
    \cup
    {\* an empty element, a repeated field, a field outside company_info
     Case(<<O("analysis"), O("record_id"), C("record_id"), C("analysis")>>,
          "document", [Expected({}) EXCEPT !["record_id"] = <<>>]),
     Case(<<O("analysis"), O("record_id"), T("7"), C("record_id"),
            O("record_id"), T("8"), C("record_id"), C("analysis")>>,
          "document", Expected({"record_id"})),
     Case(<<O("analysis"), O("name"), T("Acme"), C("name"), C("analysis")>>,
          "document", Expected({})),
     Case(<<O("analysis"), O("company_info"), C("company_info"),
            O("company_info"), O("name"), T("Acme"), C("name"),
            C("company_info"), C("analysis")>>,
          "document", Expected({"company_name"}))}
    \cup
    {Case(Damage(Document(present), how), "broken", <<>>) :
        present \in SUBSET SchemaKeys,
        how \in {"unclosed", "mismatched", "junk_after", "cut"}}
    \cup
    {Case(<<T("Sure:"), WS>> \o Document(present) \o <<WS, T("Done")>>,
          "embedded", Expected(present)) : present \in SUBSET SchemaKeys}
    \cup
    {Case(text, "blank", <<>>) :
        text \in {NoText, <<>>, <<WS>>, <<CTRL>>, <<WS, CTRL, WS>>}}
    \cup
    {Case(Decorate(JsonDocument(Expected(SchemaKeys)), how), "json",
          Expected(SchemaKeys)) : how \in {"plain", "spaced"}}
    \cup
    {Case(text, "tokens", <<>>) : text \in TokenSeqs}
    \cup
    {Case(NotText, "object", <<>>)}

NotParsed == [raised |-> FALSE, value |-> <<>>]

ParseIdle ==
    /\ ppc = "idle"
    /\ response = [raises |-> FALSE, content |-> <<>>]
    /\ xml_text = <<>>
    /\ parsed = NotParsed
    /\ oracle = [via |-> "none", kind |-> "none", fields |-> <<>>]

\* Either the remote call has answered (or raised) and analyze_email is about
\* to handle it, or a caller is about to hand a text to parse_xml.
ParseInit ==
    /\ parsed = NotParsed
    /\ \/ \E c \in Cases :
            /\ c.kind # "object"
            /\ ppc = "call"
            /\ response = [raises |-> FALSE, content |-> c.text]
            /\ xml_text = <<>>
            /\ oracle = [via |-> "pipeline", kind |-> c.kind,
                         fields |-> c.fields]
       \/ /\ ppc = "call"
          /\ response = [raises |-> TRUE, content |-> <<>>]
          /\ xml_text = <<>>
          /\ oracle = [via |-> "pipeline", kind |-> "raises", fields |-> <<>>]
       \/ \E c \in Cases :
            /\ ppc = "direct"
            /\ response = [raises |-> FALSE, content |-> <<>>]
            /\ xml_text = c.text
            /\ oracle = [via |-> "direct", kind |-> c.kind,
                         fields |-> c.fields]

\* analyze_email returns; its value is an element of xml_results.
AnalyzeEmail ==
    /\ ppc = "call"
    /\ xml_text' = AnalyzeEmailBody(0, response).value
    /\ ppc' = "analyzed"
    /\ UNCHANGED <<response, parsed, oracle>>
    /\ UNCHANGED notParse

\* parsed_results = [parse_xml(xml_text) for xml_text in xml_results]
ParseResult ==
    /\ ppc \in {"analyzed", "direct"}
    /\ parsed' = parse_xml(xml_text)
    /\ ppc' = "parsed"
    /\ UNCHANGED <<response, xml_text, oracle>>
    /\ UNCHANGED notParse

ParseNext == AnalyzeEmail \/ ParseResult

-----------------------------------------------------------------------------
\* One call of ContentAnalyzer.analyze, of LocationExtractor.extract or of
\* EmailExtractor.extract, on arguments drawn from bounded sets.

\* Texts of at most MaxWords pieces over a vocabulary.
TextsOver(vocabulary) == UNION {[1..n -> vocabulary] : n \in 0..MaxWords}

\* Pieces of subjects and bodies: an exclusion keyword in mixed case, one in
\* lower case, two RFQ keywords, a question mark, a neutral word.
AnalyzeWords == {"Out of Office", "noreply", "RFQ", "Quote", "?", "Hello"}

AnalyzeCalls ==
    {[fn |-> "analyze", args |-> <<subject, body>>] :
        subject \in TextsOver(AnalyzeWords), body \in TextsOver(AnalyzeWords)}

\* Pieces of the texts the location resolver scans, and sender addresses:
\* none, or a local part followed by a domain suffix.
LocationWords == {"Spain", "Peru", "Hello"}

SenderAddresses ==
    {<<>>} \cup {<<"ana@acme", d>> : d \in DomainPieces \cup {".MX", ".nz"}}

LocationCalls ==
    {[fn |-> "location", args |-> <<subject, body, address>>] :
        subject \in TextsOver(LocationWords), body \in TextsOver(LocationWords),
        address \in SenderAddresses}

\* The accessors EmailExtractor.extract reads, and what each yields when it
\* can be read.
ExtractAccessors ==
    {"SenderName", "SenderEmailAddress", "To", "CC", "ReceivedTime",
     "Subject", "Body", "Attachments"}

ReadableValue(accessor) ==
    CASE accessor = "SenderName" -> <<"Ana">>
      [] accessor = "SenderEmailAddress" ->
           <<"Ana", " ", "<", "ana@acme", ".mx", ">">>
      [] accessor = "To" -> <<"bob@corp", ".com">>
      [] accessor = "CC" -> <<"bob@corp", ".es">>
      [] accessor = "ReceivedTime" -> Time(2, "aware")
      [] accessor = "Subject" -> <<"RFQ">>
      [] accessor = "Body" -> <<"please", "\n", "Quote", " ", "Spain">>
      [] OTHER -> <<Acc("ok", <<"specs.pdf">>)>>

\* A message object whose accessors are in the given states.
ItemWith(states) ==
    [accessor \in ExtractAccessors \cup {"SentOn", "CreationTime"} |->
        IF accessor \in ExtractAccessors
        THEN Acc(states[accessor], ReadableValue(accessor))
        ELSE Acc("ok", Time(2, "aware"))]

ExtractCalls ==
    {[fn |-> "extract", args |-> <<ItemWith(states)>>] :
        states \in [ExtractAccessors -> {"ok", "missing", "raises"}]}

\* Items for get_date_for_filtering: the three timestamps differ, each
\* accessor readable, None, absent or raising, with or without a timezone.
DateAccessors == <<"ReceivedTime", "SentOn", "CreationTime">>
AccessorStates == {"ok", "none", "missing", "raises"}
DateItem(states, tz) ==
    [accessor \in {"ReceivedTime", "SentOn", "CreationTime"} |->
        Acc(states[accessor],
            Time(CHOOSE p \in 1..3 : DateAccessors[p] = accessor, tz))]
DateCalls ==
    {[fn |-> "get_date_for_filtering", args |-> <<DateItem(states, tz)>>] :
        states \in [{"ReceivedTime", "SentOn", "CreationTime"} -> AccessorStates],
        tz \in {"aware", "naive"}}

\* The environment and the setting the completion client is built from.
\* A variable is <<>> when unset, else <<its value>>; use_openrouter is <<>>
\* when the configuration file does not give it.
OPENROUTER_KEY == "sk-or-v1-key"
OPENAI_KEY == "sk-proj-key"
Environments ==
    [OPENROUTER_API_KEY : {<<>>, <<"">>, <<OPENROUTER_KEY>>},
     OPENAI_API_KEY : {<<>>, <<"">>, <<OPENAI_KEY>>}]
Settings == {<<>>, <<TRUE>>, <<FALSE>>}

\* os.getenv(name) is set and not empty.
HasKey(env, name) == env[name] # <<>> /\ env[name][1] # ""

\* ConfigLoader.get_api_key: (api_key, key_type), or ValueError.
get_api_key(env) ==
    IF HasKey(env, "OPENROUTER_API_KEY")
    THEN [raised |-> FALSE, api_key |-> env.OPENROUTER_API_KEY[1],
          key_type |-> "openrouter"]
    ELSE IF HasKey(env, "OPENAI_API_KEY")
         THEN [raised |-> FALSE, api_key |-> env.OPENAI_API_KEY[1],
               key_type |-> "openai"]
         ELSE [raised |-> TRUE, api_key |-> "", key_type |-> ""]

\* ConfigLoader.should_use_openrouter: the setting (True by default) and
\* the OpenRouter key being there.
should_use_openrouter(setting, env) ==
    LET use_openrouter == IF setting = <<>> THEN TRUE ELSE setting[1]
    IN use_openrouter /\ HasKey(env, "OPENROUTER_API_KEY")

OPENROUTER_URL == "https://openrouter.ai/api/v1"
OPENAI_URL == "https://api.openai.com/v1"

\* The client initialisation of email_processing.py: exit(1) without a key,
\* else AsyncOpenAI with the OpenRouter base_url or with the library's
\* default one.
ClientInit(setting, env) ==
    LET got == get_api_key(env)
    IN IF got.raised
       THEN [exited |-> TRUE, base_url |-> "", api_key |-> ""]
       ELSE [exited |-> FALSE,
             base_url |-> IF should_use_openrouter(setting, env)
                          THEN OPENROUTER_URL ELSE OPENAI_URL,
             api_key |-> got.api_key]

ClientCalls ==
    {[fn |-> "client", args |-> <<setting, env>>] :
        setting \in Settings, env \in Environments}

CallIdle ==
    /\ fpc = "idle"
    /\ call = [fn |-> "none", args |-> <<>>]
    /\ ret = <<>>

CallInit ==
    /\ fpc = "ready"
    /\ call \in AnalyzeCalls \cup LocationCalls \cup ExtractCalls \cup DateCalls
                \cup ClientCalls
    /\ ret = <<>>

\* self.content_analyzer.analyze(subject, body)
CallAnalyze ==
    /\ fpc = "ready"
    /\ call.fn = "analyze"
    /\ ret' = Analyze(call.args[1], call.args[2])
    /\ fpc' = "returned"
    /\ UNCHANGED call
    /\ UNCHANGED notCall

\* self.location_extractor.extract(subject, body, from_email)
CallLocationExtract ==
    /\ fpc = "ready"
    /\ call.fn = "location"
    /\ ret' = LocationExtract(call.args[1], call.args[2], call.args[3])
    /\ fpc' = "returned"
    /\ UNCHANGED call
    /\ UNCHANGED notCall

\* self.email_extractor.extract(item)
CallExtract ==
    /\ fpc = "ready"
    /\ call.fn = "extract"
    /\ ret' = extract(call.args[1])
    /\ fpc' = "returned"
    /\ UNCHANGED call
    /\ UNCHANGED notCall

\* get_date_for_filtering(email)
CallGetDate ==
    /\ fpc = "ready"
    /\ call.fn = "get_date_for_filtering"
    /\ ret' = get_date_for_filtering(call.args[1])
    /\ fpc' = "returned"
    /\ UNCHANGED call
    /\ UNCHANGED notCall

\* import of email_processing.py: the client is initialised.
CallClientInit ==
    /\ fpc = "ready"
    /\ call.fn = "client"
    /\ ret' = ClientInit(call.args[1], call.args[2])
    /\ fpc' = "returned"
    /\ UNCHANGED call
    /\ UNCHANGED notCall

CallNext ==
    \/ CallAnalyze
    \/ CallLocationExtract
    \/ CallExtract
    \/ CallGetDate
    \/ CallClientInit

-----------------------------------------------------------------------------
\* The command line of the extractor: main of extractor.py.

\* datetime.strptime / dateutil on the date texts of the model: the time a
\* text denotes, 0 when no format reads it.
DateTextValue(date_str) ==
    CASE date_str = "2024-01-01" -> 1
      [] date_str = "02/01/2024" -> 2
      [] date_str = "03-01-2024" -> 3
      [] OTHER -> 0

\* parse_date: <<>> (None) for an empty or unreadable text.
parse_date(date_str) ==
    IF date_str = "" THEN <<>>
    ELSE IF DateTextValue(date_str) = 0 THEN <<>>
    ELSE <<normalize_datetime(Time(DateTextValue(date_str), "naive"))>>

\* A flag is <<>> when absent (args.x is None), else <<its text>>.
StartFlags == {<<>>, <<"not a date">>, <<"02/01/2024">>, <<"03-01-2024">>}
EndFlags == {<<>>, <<"">>, <<"31/31/2024">>, <<"02/01/2024">>}

\* "if args.x:": the flag is given and not the empty text.
Given(flag) == flag # <<>> /\ flag[1] # ""

\* What main makes of a flag: None when it is not given.
FlagDate(flag) == IF Given(flag) THEN parse_date(flag[1]) ELSE <<>>

\* The flag is given and parse_date cannot read it.
InvalidFlag(flag) == Given(flag) /\ parse_date(flag[1]) = <<>>

\* start_date and end_date and start_date > end_date
StartAfterEnd(start, end) ==
    start # <<>> /\ end # <<>> /\ start[1].wall > end[1].wall

CliIdle ==
    /\ mpc = "idle"
    /\ argv = <<>>
    /\ exit_status = <<>>

CliInit ==
    /\ mpc = "args"
    /\ argv \in [start_date : StartFlags, end_date : EndFlags]
    /\ exit_status = <<>>

\* A date flag is invalid or the range is empty: exit(1) before the
\* processor is created.
ArgsRejected ==
    /\ mpc = "args"
    /\ \/ InvalidFlag(argv.start_date)
       \/ InvalidFlag(argv.end_date)
       \/ StartAfterEnd(FlagDate(argv.start_date), FlagDate(argv.end_date))
    /\ mpc' = "exited"
    /\ exit_status' = <<1>>
    /\ UNCHANGED argv
    /\ UNCHANGED travVars
    /\ UNCHANGED notCli

\* processor = EmailProcessor(); processor.process_folder(start_date,
\* end_date) is entered.
StartRun ==
    /\ mpc = "args"
    /\ ~InvalidFlag(argv.start_date)
    /\ ~InvalidFlag(argv.end_date)
    /\ ~StartAfterEnd(FlagDate(argv.start_date), FlagDate(argv.end_date))
    /\ mpc' = "running"
    /\ start_date' = FlagDate(argv.start_date)
    /\ end_date' = FlagDate(argv.end_date)
    /\ tpc' = "start"
    /\ UNCHANGED <<argv, exit_status>>
    /\ UNCHANGED <<results, excluded_emails, error_emails, stats, seen,
                   written, returned>>
    /\ UNCHANGED notCli

\* process_folder returned; main drops what it returned and falls off its
\* end: the interpreter exits with status 0.
MainReturns ==
    /\ mpc = "running"
    /\ returned # <<>>
    /\ mpc' = "exited"
    /\ exit_status' = <<0>>
    /\ UNCHANGED argv
    /\ UNCHANGED travVars
    /\ UNCHANGED notCli

CliNext ==
    \/ ArgsRejected
    \/ StartRun
    \/ FolderResolved
    \/ ConnectFails
    \/ VisitItem
    \/ FinishTraversal
    \/ MainReturns

-----------------------------------------------------------------------------
\* The workflow orchestrator: WorkflowOrchestrator.run_workflow, which runs
\* extractor.py and email_processing.py as child processes.

\* outputs/emails.xlsx: absent, or left by an earlier run, with a record
\* or with none.
NoFile == [run |-> "none", rows |-> 0]
EarlierFile == [run |-> "earlier", rows |-> 1]
EmptyFile == [run |-> "earlier", rows |-> 0]

\* What the steps did so far; fate is how the traversal of the child
\* process ended.
NoSteps ==
    [extractor |-> "not run", fate |-> "none", output |-> "unchecked",
     review |-> "none", processor |-> "not run", processor_input |-> NoFile]

\* The date flags run_workflow is called with.
WorkflowFlags ==
    {[start_date |-> <<>>, end_date |-> <<"02/01/2024">>],
     [start_date |-> <<"not a date">>, end_date |-> <<"">>]}

\* What the user types at the checkpoint.
Answers == {"yes", " Y ", "No", "n", "maybe"}

\* response.strip().lower() on those answers.
StripLower(answer) ==
    CASE answer = " Y " -> "y"
      [] answer = "No" -> "no"
      [] OTHER -> answer

WorkIdle ==
    /\ wpc = "idle"
    /\ workflow = <<>>
    /\ outfile = NoFile
    /\ steps = NoSteps
    /\ wret = <<>>

WorkInit ==
    /\ wpc = "start"
    /\ workflow \in [auto_process : BOOLEAN, skip_extraction : BOOLEAN,
                      flags : WorkflowFlags]
    /\ outfile \in {NoFile, EarlierFile, EmptyFile}
    /\ steps = NoSteps
    /\ wret = <<>>

\* skip_extraction: the extractor is not run.
SkipExtraction ==
    /\ wpc = "start"
    /\ workflow.skip_extraction
    /\ wpc' = "check"
    /\ steps' = [steps EXCEPT !.extractor = "skipped"]
    /\ UNCHANGED <<workflow, outfile, wret>>
    /\ UNCHANGED <<travVars, cliVars>>
    /\ UNCHANGED notWork

\* run_extractor builds the command line ("if start_date:", "if end_date:")
\* and subprocess.run starts extractor.py.
RunExtractor ==
    /\ wpc = "start"
    /\ ~workflow.skip_extraction
    /\ wpc' = "extracting"
    /\ mpc' = "args"
    /\ argv' = [start_date |-> IF Given(workflow.flags.start_date)
                                THEN workflow.flags.start_date ELSE <<>>,
                end_date |-> IF Given(workflow.flags.end_date)
                              THEN workflow.flags.end_date ELSE <<>>]
    /\ exit_status' = <<>>
    /\ UNCHANGED <<workflow, outfile, steps, wret>>
    /\ UNCHANGED travVars
    /\ UNCHANGED notWork

\* The child process exited: its memory is gone, the tables it wrote stay.
\* subprocess.run(check=True) raises for a non-zero status, so run_extractor
\* returns True exactly for status 0, and run_workflow returns 1 otherwise.
ExtractorExits ==
    /\ wpc = "extracting"
    /\ mpc = "exited"
    /\ outfile' = IF "output" \in written
                  THEN [run |-> "this", rows |-> Len(results)]
                  ELSE outfile
    /\ steps' = [steps EXCEPT
                   !.extractor = IF exit_status = <<0>> THEN "ok" ELSE "failed",
                   !.fate = tpc]
    /\ IF exit_status = <<0>>
       THEN wpc' = "check" /\ wret' = wret
       ELSE wpc' = "returned" /\ wret' = <<1>>
    /\ start_date' = <<>>
    /\ end_date' = <<>>
    /\ tpc' = "idle"
    /\ results' = <<>>
    /\ excluded_emails' = <<>>
    /\ error_emails' = <<>>
    /\ stats' = NewStats
    /\ seen' = <<>>
    /\ written' = {}
    /\ returned' = <<>>
    /\ mpc' = "idle"
    /\ argv' = <<>>
    /\ exit_status' = <<>>
    /\ UNCHANGED workflow
    /\ UNCHANGED notWork

\* A check_extractor_output that accepts whatever it finds.
CheckOutputAlways ==
    /\ wpc = "check"
    /\ steps' = [steps EXCEPT !.output = "ok"]
    /\ wpc' = "checkpoint"
    /\ UNCHANGED <<workflow, outfile, wret>>
    /\ UNCHANGED <<travVars, cliVars>>
    /\ UNCHANGED notWork

\* check_extractor_output: the file exists and holds at least one record.
CheckOutput ==
    /\ wpc = "check"
    /\ IF outfile.run # "none" /\ outfile.rows # 0
       THEN /\ steps' = [steps EXCEPT !.output = "ok"]
            /\ wpc' = "checkpoint"
            /\ wret' = wret
       ELSE /\ steps' = [steps EXCEPT !.output = "bad"]
            /\ wpc' = "returned"
            /\ wret' = <<1>>
    /\ UNCHANGED <<workflow, outfile>>
    /\ UNCHANGED <<travVars, cliVars>>
    /\ UNCHANGED notWork

\* checkpoint_review: auto_process approves; else the user is asked until
\* the answer is yes/y or no/n.
Checkpoint ==
    /\ wpc = "checkpoint"
    /\ IF workflow.auto_process
       THEN /\ steps' = [steps EXCEPT !.review = "auto"]
            /\ wpc' = "processing"
            /\ wret' = wret
       ELSE \E answer \in Answers :
              CASE StripLower(answer) \in {"yes", "y"} ->
                     /\ steps' = [steps EXCEPT !.review = "approved"]
                     /\ wpc' = "processing"
                     /\ wret' = wret
                [] StripLower(answer) \in {"no", "n"} ->
                     /\ steps' = [steps EXCEPT !.review = "declined"]
                     /\ wpc' = "returned"
                     /\ wret' = <<1>>
                [] OTHER ->
                     \* "Please answer 'yes' or 'no'": asked again
                     /\ steps' = [steps EXCEPT !.review = "asked again"]
                     /\ UNCHANGED <<wpc, wret>>
    /\ UNCHANGED <<workflow, outfile>>
    /\ UNCHANGED <<travVars, cliVars>>
    /\ UNCHANGED notWork

\* run_processor: email_processing.py runs on outputs/emails.xlsx and exits
\* with some status; run_workflow returns 0 for status 0, else 1.
RunProcessor ==
    /\ wpc = "processing"
    /\ \E status \in {0, 1} :
          /\ steps' = [steps EXCEPT
                         !.processor = IF status = 0 THEN "ok" ELSE "failed",
                         !.processor_input = outfile]
          /\ wret' = <<IF status = 0 THEN 0 ELSE 1>>
    /\ wpc' = "returned"
    /\ UNCHANGED <<workflow, outfile>>
    /\ UNCHANGED <<travVars, cliVars>>
    /\ UNCHANGED notWork

WorkNext ==
    \/ SkipExtraction
    \/ RunExtractor
    \/ ArgsRejected
    \/ StartRun
    \/ FolderResolved
    \/ ConnectFails
    \/ VisitItem
    \/ FinishTraversal
    \/ MainReturns
    \/ ExtractorExits
    \/ CheckOutput
    \/ Checkpoint
    \/ RunProcessor

-----------------------------------------------------------------------------
EnrichIdle ==
    /\ total = 0
    /\ concurrency = 1
    /\ sleep_between = 0
    /\ failures = <<>>
    /\ epc = "idle"
    /\ i = 0
    /\ batch_indices = <<>>
    /\ task = <<>>
    /\ calls = <<>>
    /\ task_result = <<>>
    /\ completed = <<>>
    /\ all_results = <<>>
    /\ escaped = FALSE

\* The enrichment run (python email_processing.py).
Init == EnrichInit /\ TravIdle /\ ParseIdle /\ CallIdle /\ CliIdle /\ WorkIdle

Spec ==
    /\ Init
    /\ [][EnrichNext]_vars

\* The enrichment run when the event loop keeps running whatever can run
\* and every remote call eventually returns or raises.
LiveSpec ==
    /\ Init
    /\ [][EnrichNext]_vars
    /\ WF_vars(EnrichNext)

\* The traversal run (python extractor.py).
TraverseInit == TravInit /\ EnrichIdle /\ ParseIdle /\ CallIdle /\ CliIdle /\ WorkIdle

TraverseSpec ==
    /\ TraverseInit
    /\ [][TravNext]_vars

\* One call of a function of the extractors.
FunctionInit == CallInit /\ EnrichIdle /\ TravIdle /\ ParseIdle /\ CliIdle /\ WorkIdle

FunctionSpec ==
    /\ FunctionInit
    /\ [][CallNext]_vars

\* The response pipeline on one response.
ResponseInit == ParseInit /\ EnrichIdle /\ TravIdle /\ CallIdle /\ CliIdle /\ WorkIdle

ResponseSpec ==
    /\ ResponseInit
    /\ [][ParseNext]_vars

\* The extractor run from its command line (python extractor.py [flags]).
CliRunInit == CliInit /\ TravIdle /\ EnrichIdle /\ ParseIdle /\ CallIdle /\ WorkIdle

CliSpec ==
    /\ CliRunInit
    /\ [][CliNext]_vars

\* The whole workflow (python workflow.py [flags]).
WorkflowInit ==
    WorkInit /\ CliIdle /\ TravIdle /\ EnrichIdle /\ ParseIdle /\ CallIdle

WorkflowSpec ==
    /\ WorkflowInit
    /\ [][WorkNext]_vars

-----------------------------------------------------------------------------
\* Properties of the enrichment orchestrator.

\* C1: process_all_emails returns exactly one result per record, and the
\* result at position idx is the value returned by the task issued for record
\* idx, whatever order the tasks of a batch completed in.
C1_OrderedResults ==
    epc = "done" =>
        /\ Len(all_results) = total
        /\ \A idx \in Records :
              /\ task[idx] = "done"
              /\ all_results[idx + 1] = task_result[idx]
              /\ (failures[idx] = 0 => all_results[idx + 1] = Response(idx))

\* A run whose last batch completed out of index order with different results.
C1_Witness ==
    /\ epc = "done"
    /\ Len(completed) >= 2
    /\ completed[1] > completed[2]
    /\ task_result[completed[1]] # task_result[completed[2]]

\* C2: a raising remote call is issued again, up to RETRY_ATTEMPTS attempts;
\* the sentinel is returned only after every attempt failed, so a record
\* whose failures are fewer than the cap gets its successful response.
C2_RetriesUntilSuccess ==
    epc = "done" =>
        \A idx \in Records :
            IF failures[idx] < RETRY_ATTEMPTS
            THEN /\ calls[idx] = failures[idx] + 1
                 /\ task_result[idx] = Response(idx)
            ELSE /\ calls[idx] = RETRY_ATTEMPTS
                 /\ task_result[idx] = SentinelXml("API Error")

\* C3: when the remote call of a record raises on every attempt, that record's
\* result is the "API Error" sentinel, no exception reaches the caller of
\* process_batch or process_all_emails, and every other record still gets its
\* own result.
C3_FailureIsolated ==
    /\ ~escaped
    /\ epc # "raised"
    /\ epc = "done" =>
          /\ Len(all_results) = total
          /\ \A idx \in Records :
                /\ failures[idx] = RETRY_ATTEMPTS =>
                      all_results[idx + 1] = SentinelXml("API Error")
                /\ failures[idx] = 0 => all_results[idx + 1] = Response(idx)

\* A finished run with one record failing on every attempt beside one whose
\* call succeeds.
C3_Witness ==
    /\ epc = "done"
    /\ \E a, b \in Records :
          /\ failures[a] = RETRY_ATTEMPTS
          /\ failures[b] = 0
          /\ all_results[a + 1] = SentinelXml("API Error")
          /\ all_results[b + 1] = Response(b)

-----------------------------------------------------------------------------
\* Properties of the folder traversal.

FilterActive == start_date # <<>> \/ end_date # <<>>

\* The items seen so far that landed in a given place.
LandedIn(place) == {p \in 1..Len(seen) : seen[p].landed = place}

\* The item passed the date stage: no filter is active, or its timestamp was
\* resolved and lies within the bounds.
PassedDateStage(p) == ~FilterActive \/ seen[p].date = "in"

\* C4: with a date filter active, every item whose resolved timestamp lies
\* within [start_date, end_date] ends the traversal in exactly one of the
\* accepted and excluded lists and is not counted in filtered_by_date,
\* whichever of its other accessors fail.
C4_InRangeKept ==
    (tpc = "done" /\ FilterActive) =>
        /\ \A p \in 1..Len(seen) :
              seen[p].date = "in" => seen[p].landed \in {"accepted", "excluded"}
        /\ Len(results) = Cardinality(LandedIn("accepted"))
        /\ Len(excluded_emails) = Cardinality(LandedIn("excluded"))

\* C5: with a date filter active, every item none of whose timestamps can be
\* read ends as one entry of errors, whichever of its other accessors
\* (Subject included) fail.
C5_UnreadableDateIsError ==
    FilterActive =>
        /\ \A p \in 1..Len(seen) :
              seen[p].date = "unreadable" => seen[p].landed = "errors"
        /\ tpc \in {"loop", "done"} =>
              Len(error_emails) =
                  Cardinality({p \in 1..Len(seen) : seen[p].date = "unreadable"})

\* C6: after every traversal run extracted_count + excluded_count +
\* error_count + filtered_by_date equals total_items.
C6_CountsAddUp ==
    tpc = "done" =>
        stats.extracted_count + stats.excluded_count + stats.error_count
            + stats.filtered_by_date = stats.total_items

\* C7: every item that passes the date stage and qualifies, or for which
\* reading Subject/Body raises (fail-open), is exactly one record of the
\* accepted list, whichever accessors fail during extraction.
C7_QualifyingAccepted ==
    /\ \A p \in 1..Len(seen) :
          (PassedDateStage(p) /\ seen[p].content \in {"qualifies", "raises"})
              => seen[p].landed = "accepted"
    /\ Len(results) = Cardinality(LandedIn("accepted"))

\* The same statement for the traversals that no exception leaves: it holds.
C7_UnlessAborted == tpc # "aborted" => C7_QualifyingAccepted


-----------------------------------------------------------------------------
\* Properties of the response pipeline (ResponseSpec).

HasToken(text, t) == \E p \in 1..Len(text) : text[p] = t

\* The dict parse_xml builds from a sentinel payload of analyze_email.
AnalysisSentinel(name) ==
    [key \in SchemaKeys |->
        CASE key = "record_id" -> <<"error">>
          [] key = "company_name" -> <<name>>
          [] OTHER -> <<DefaultOf(key)>>]

\* The results that stand for a failure rather than for an analysis.
SentinelResults ==
    {AnalysisSentinel(name) :
        name \in {"Empty response", "Invalid XML format", "API Error"}}
    \cup {Sentinel("XML parse error", "Parse error"),
          Sentinel("Empty response", "N/A"),
          Sentinel("Empty after cleaning", "N/A"),
          Sentinel("Unexpected error", "Error")}

\* All nine schema fields are there and none is empty.
Populated(value) ==
    /\ DOMAIN value = SchemaKeys
    /\ \A key \in SchemaKeys : value[key] # <<>>

\* The response content is empty, holds no <analysis> document, opens one
\* without closing it, or is unparseable in another way.
Malformed ==
    \/ response.content \in {NoText, <<>>}
    \/ ~HasToken(response.content, O("analysis"))
    \/ ~HasToken(response.content, C("analysis"))
    \/ oracle.kind = "broken"
    \/ ~FromString(RemoveControl(xml_text), <<>>, <<>>).ok

\* C8: for a response whose content is empty, does not contain an <analysis>
\* document, opens <analysis> without closing it, or is otherwise
\* unparseable, analyze_email followed by parse_xml raises nothing and yields
\* a sentinel result in which all nine schema fields are populated.
C8_MalformedYieldsSentinel ==
    (ppc = "parsed" /\ oracle.via = "pipeline" /\ ~response.raises /\ Malformed)
        => /\ ~parsed.raised
           /\ parsed.value \in SentinelResults
           /\ Populated(parsed.value)

\* A response that opens <analysis> and never closes it went through both
\* steps and came out as the parse-error sentinel.
C8_Witness ==
    /\ ppc = "parsed"
    /\ oracle.via = "pipeline"
    /\ ~response.raises
    /\ HasToken(response.content, O("analysis"))
    /\ ~HasToken(response.content, C("analysis"))
    /\ Len(response.content) > 2
    /\ parsed.value = Sentinel("XML parse error", "Parse error")

\* What parse_xml answers for every text, apart from the sentinel of the
\* texts that cannot be parsed: nothing is raised, the dict has exactly the
\* nine keys, and a well-formed document gives each present field's text and
\* each absent field's named default.
NineKeysAndFields ==
    /\ ~parsed.raised
    /\ DOMAIN parsed.value = SchemaKeys
    /\ oracle.kind = "document" => parsed.value = oracle.fields

Unparseable == oracle.kind \in {"broken", "embedded", "json", "blank"}

\* C9 as stated: for every input text parse_xml returns the nine keys, the
\* fields of a well-formed document (text or named default), and the
\* "Parse error" sentinel for every text that cannot be parsed.
C9_AsStated ==
    (ppc = "parsed" /\ oracle.via = "direct" /\ oracle.kind # "object"
        /\ xml_text # NoText)
        => /\ NineKeysAndFields
           /\ Unparseable
                => parsed.value = Sentinel("XML parse error", "Parse error")

\* C9 (amended): as stated, except that a text that is empty, or blank once
\* the control characters are removed, maps to the "Empty response" or the
\* "Empty after cleaning" sentinel (the other fields "N/A"); every other
\* unparseable text maps to the "Parse error" sentinel.
C9_ParseXmlTotal ==
    (ppc = "parsed" /\ oracle.via = "direct" /\ oracle.kind # "object")
        => /\ NineKeysAndFields
           /\ (Unparseable /\ oracle.kind # "blank")
                => parsed.value = Sentinel("XML parse error", "Parse error")
           /\ oracle.kind = "blank"
                => parsed.value =
                       IF xml_text \in {NoText, <<>>}
                       THEN Sentinel("Empty response", "N/A")
                       ELSE Sentinel("Empty after cleaning", "N/A")

\* parse_xml was handed a well-formed document with record_id present and
\* the website absent, and answered the text and the default.
C9_Witness ==
    /\ ppc = "parsed"
    /\ oracle.via = "direct"
    /\ oracle.kind = "document"
    /\ parsed.value["record_id"] = <<"7">>
    /\ parsed.value["company_website"] = <<"Not mentioned">>
    /\ parsed.value["company_name"] = <<"Acme">>

\* C10: a known-good JSON response carrying all nine schema fields comes out
\* of the response parser with exactly the same field values.
C10_JsonRoundTrip ==
    (ppc = "parsed" /\ oracle.kind = "json")
        => /\ ~parsed.raised
           /\ parsed.value = oracle.fields

\* The pipeline keeps the fields of a document the service returned as the
\* contract says, also when text surrounds it.
DocumentsSurvive ==
    (ppc = "parsed" /\ oracle.via = "pipeline"
        /\ oracle.kind \in {"document", "embedded"})
        => parsed.value = oracle.fields

-----------------------------------------------------------------------------
\* Properties of the functions of the extractors (FunctionSpec).

Analyzed == fpc = "returned" /\ call.fn = "analyze"

\* The keywords of a list that occur in the lower-cased subject or body.
KeywordsIn(list, subject, body) ==
    ({LowerPiece(subject[p]) : p \in 1..Len(subject)}
        \cup {LowerPiece(body[p]) : p \in 1..Len(body)})
    \cap {list[p] : p \in 1..Len(list)}

QuestionMarks(text) == {p \in 1..Len(text) : text[p] = "?"}

\* C11: when the lower-cased subject and body contain an exclusion keyword,
\* analyze returns qualifies = false with a reason that names a matched
\* keyword, also when an RFQ keyword or question marks are present.
C11_ExclusionWins ==
    Analyzed =>
        LET matched == KeywordsIn(EXCLUSION_KEYWORDS, call.args[1], call.args[2])
        IN matched # {} =>
             /\ ret.qualifies = FALSE
             /\ \E kw \in matched :
                   ret.reason = <<"Auto-reply or notification (keyword: ", kw, ")">>

\* analyze returned for a subject with an RFQ keyword and a question mark
\* and a body with an exclusion keyword, and rejected it.
C11_Witness ==
    /\ Analyzed
    /\ KeywordsIn(EXCLUSION_KEYWORDS, <<>>, call.args[2]) # {}
    /\ KeywordsIn(RFQ_KEYWORDS, call.args[1], <<>>) # {}
    /\ QuestionMarks(call.args[1]) # {}
    /\ ret.qualifies = FALSE

\* C12: analyze returns the result of the five steps in strict precedence:
\* both empty -> reject ("empty"); an exclusion keyword -> reject; an RFQ
\* keyword -> accept ("keyword found"); a "?" in the subject or at least two
\* in the body -> accept ("contains questions"); otherwise reject ("no
\* indicators found").
C12_FiveSteps ==
    Analyzed =>
        LET subject == call.args[1]
            body == call.args[2]
        IN CASE subject = <<>> /\ body = <<>> ->
                  /\ ret.qualifies = FALSE
                  /\ ret.reason = <<"Empty email">>
             [] KeywordsIn(EXCLUSION_KEYWORDS, subject, body) # {} ->
                  /\ ret.qualifies = FALSE
                  /\ ret.reason[1] = "Auto-reply or notification (keyword: "
             [] KeywordsIn(RFQ_KEYWORDS, subject, body) # {} ->
                  /\ ret.qualifies = TRUE
                  /\ ret.reason = <<"RFQ keyword found">>
             [] \/ QuestionMarks(subject) # {}
                \/ Cardinality(QuestionMarks(body)) >= 2 ->
                  /\ ret.qualifies = TRUE
                  /\ ret.reason = <<"Contains questions">>
             [] OTHER ->
                  /\ ret.qualifies = FALSE
                  /\ ret.reason = <<"No RFQ keywords or indicators found">>

\* analyze returned for a body with one question mark and nothing else that
\* counts, and rejected it for want of indicators.
C12_Witness ==
    /\ Analyzed
    /\ call.args[1] = <<"Hello">>
    /\ Cardinality(QuestionMarks(call.args[2])) = 1
    /\ KeywordsIn(RFQ_KEYWORDS, <<>>, call.args[2]) = {}
    /\ KeywordsIn(EXCLUSION_KEYWORDS, <<>>, call.args[2]) = {}
    /\ ret = [qualifies |-> FALSE,
              reason |-> <<"No RFQ keywords or indicators found">>]

Located == fpc = "returned" /\ call.fn = "location"

\* The countries the suffix table gives for an address: those of the entries
\* whose suffix the lower-cased address ends in.
SuffixCountries(address) ==
    IF address = <<>> THEN {}
    ELSE {DOMAIN_COUNTRY_MAP[p][2] : p \in
            {q \in 1..Len(DOMAIN_COUNTRY_MAP) :
                DOMAIN_COUNTRY_MAP[q][1] = LowerPiece(address[Len(address)])}}

\* The country names of the list that occur in a text.
CountriesNamed(text) ==
    {COUNTRIES[p] : p \in
        {q \in 1..Len(COUNTRIES) :
            \E r \in 1..Len(text) : LowerPiece(text[r]) = LowerPiece(COUNTRIES[q])}}

\* C14: for a sender address that ends in a suffix of the suffix table the
\* resolver returns that entry's country whatever subject and body say; the
\* country names in the text decide only when no suffix matches.
C14_SuffixDecides ==
    Located =>
        LET bySuffix == SuffixCountries(call.args[3])
            byText == CountriesNamed(call.args[1]) \cup CountriesNamed(call.args[2])
        IN /\ bySuffix # {} => bySuffix = {ret.country[1]}
           /\ bySuffix = {} =>
                IF byText = {} THEN ret.country = <<>>
                ELSE ret.country # <<>> /\ ret.country[1] \in byText

\* The resolver returned Mexico for an address ending in ".MX" although the
\* text names Spain.
C14_Witness ==
    /\ Located
    /\ call.args[3] = <<"ana@acme", ".MX">>
    /\ "Spain" \in CountriesNamed(call.args[2])
    /\ ret.country = <<"Mexico">>

Extracted == fpc = "returned" /\ call.fn = "extract"

\* The field of the record each accessor fills, and the tag of its failure.
FieldOf(accessor) ==
    CASE accessor = "SenderName" -> "from_name"
      [] accessor = "SenderEmailAddress" -> "from_email"
      [] accessor = "To" -> "to"
      [] accessor = "CC" -> "cc"
      [] accessor = "ReceivedTime" -> "date"
      [] accessor = "Subject" -> "subject"
      [] accessor = "Body" -> "body"
      [] OTHER -> "attachments"

TagOf(accessor) ==
    CASE accessor = "SenderName" -> "ERROR_FROM_NAME"
      [] accessor = "SenderEmailAddress" -> "ERROR_FROM_EMAIL"
      [] accessor = "To" -> "ERROR_TO"
      [] accessor = "CC" -> "ERROR_CC"
      [] accessor = "ReceivedTime" -> "ERROR_DATE"
      [] accessor = "Subject" -> "ERROR_SUBJECT"
      [] accessor = "Body" -> "ERROR_BODY"
      [] OTHER -> "ERROR_ATTACHMENTS"

\* What the record holds for an accessor that was read.
ExtractedValue(accessor) ==
    CASE accessor = "SenderName" -> <<"Ana">>
      [] accessor = "SenderEmailAddress" -> <<"ana@acme", ".mx">>
      [] accessor = "To" -> <<"bob@corp", ".com">>
      [] accessor = "CC" -> <<"bob@corp", ".es">>
      [] accessor = "ReceivedTime" -> <<"2">>
      [] accessor = "Subject" -> <<"RFQ">>
      [] accessor = "Body" -> <<"please", " ", "Quote", " ", "Spain">>
      [] OTHER -> <<"specs.pdf">>

\* The country the record should carry: from the address when it was read,
\* else from the body when that was read.
ExtractedCountry(item) ==
    IF ~ReadFails(item.SenderEmailAddress) THEN <<"Mexico">>
    ELSE IF ~ReadFails(item.Body) THEN <<"Spain">>
    ELSE <<>>

TagsOf(record) == {record.error_tags[p] : p \in 1..Len(record.error_tags)}

\* C15: for every subset of the accessors of the item that fail, extract
\* raises nothing, every failed field has its own tag in error_tags and its
\* default empty value, and every other field is extracted.
C15_EveryFailureTagged ==
    Extracted =>
        LET item == call.args[1]
        IN /\ ret.raised = FALSE
           /\ \A accessor \in ExtractAccessors :
                IF ReadFails(item[accessor])
                THEN /\ TagOf(accessor) \in TagsOf(ret.value)
                     /\ ret.value[FieldOf(accessor)] = <<>>
                ELSE /\ TagOf(accessor) \notin TagsOf(ret.value)
                     /\ ret.value[FieldOf(accessor)] = ExtractedValue(accessor)
           /\ "ERROR_LOCATION" \notin TagsOf(ret.value)
           /\ ret.value.location[1].country = ExtractedCountry(item)

\* The same for the accessors other than ReceivedTime and Attachments, the
\* two extract guards with hasattr.
UnguardedFailuresTagged ==
    Extracted =>
        LET item == call.args[1]
        IN /\ ret.raised = FALSE
           /\ \A accessor \in ExtractAccessors :
                IF ReadFails(item[accessor])
                THEN /\ \/ TagOf(accessor) \in TagsOf(ret.value)
                        \/ /\ accessor \in {"ReceivedTime", "Attachments"}
                           /\ item[accessor].st = "missing"
                     /\ ret.value[FieldOf(accessor)] = <<>>
                ELSE /\ TagOf(accessor) \notin TagsOf(ret.value)
                     /\ ret.value[FieldOf(accessor)] = ExtractedValue(accessor)
           /\ ret.value.location[1].country = ExtractedCountry(item)

-----------------------------------------------------------------------------
\* Properties of the date bounds, of the batches and of the run as a whole.

\* The wall-clock time lies before a set start_date / after a set end_date.
BeforeStart(wall) == start_date # <<>> /\ wall < start_date[1].wall
AfterEnd(wall) == end_date # <<>> /\ wall > end_date[1].wall

\* C16: date bounds are inclusive and each may be open: an item whose
\* timestamp equals start_date or end_date is not filtered, an item strictly
\* outside the range increments filtered_by_date by exactly one and is kept
\* in none of accepted, excluded or errors, and an unset bound excludes
\* nothing on its side.
C16_InclusiveOpenBounds ==
    /\ \A p \in 1..Len(seen) :
          seen[p].date # "unreadable" =>
              IF BeforeStart(seen[p].wall) \/ AfterEnd(seen[p].wall)
              THEN seen[p].landed = "filtered"
              ELSE seen[p].landed # "filtered"
    /\ tpc \in {"loop", "done"} =>
          stats.filtered_by_date = Cardinality(LandedIn("filtered"))

\* A finished traversal with both bounds set that saw an item on the bound,
\* which was kept, and an item after it, which was filtered.
C16_Witness ==
    /\ tpc = "done"
    /\ start_date # <<>>
    /\ end_date # <<>>
    /\ Len(seen) = 2
    /\ seen[1].date # "unreadable"
    /\ seen[1].wall = end_date[1].wall
    /\ seen[1].landed \in {"accepted", "excluded"}
    /\ seen[2].date # "unreadable"
    /\ AfterEnd(seen[2].wall)
    /\ seen[2].landed = "filtered"
    /\ stats.filtered_by_date = 1

\* The records whose remote call is in flight, and the batch of a record.
InFlight == {idx \in Records : task[idx] = "inflight"}
BatchOf(idx) == idx \div concurrency
Resolved(idx) == task[idx] \in {"done", "failed"}

\* C17: at every instant the number of in-flight remote calls is at most
\* CONCURRENCY, and no call of batch k+1 is issued before every call of
\* batch k has resolved.
C17_BoundedInFlight ==
    epc # "idle" =>
        /\ Cardinality(InFlight) <= concurrency
        /\ \A idx, later \in Records :
              (BatchOf(idx) < BatchOf(later) /\ calls[later] > 0)
                  => Resolved(idx)

\* The second batch has as many calls in flight as the bound allows, more
\* than one, after the first batch resolved.
C17_Witness ==
    /\ epc = "gather"
    /\ concurrency > 1
    /\ Cardinality(InFlight) = concurrency
    /\ \A idx \in InFlight : BatchOf(idx) = 1
    /\ \A idx \in Records : BatchOf(idx) = 0 => Resolved(idx)

\* C18: once the target folder is resolved, a traversal run always visits
\* every item and finishes by producing the statistics summary, whatever
\* accessors of individual items fail; the run stops early only when
\* connecting to the mail store or resolving the folder fails.
C18_ResolvedRunFinishes ==
    tpc \notin {"idle", "start", "connect_failed"} =>
        \/ tpc = "loop" /\ returned = <<>>
        \/ /\ tpc = "done"
           /\ returned = <<Success(stats)>>
           /\ stats.total_items = Len(seen)

\* C19: if connecting to the mail store or resolving the target folder
\* raises, process_folder reports failure to its caller (success false, no
\* stats, no output path) and writes none of the three output tables.
C19_ConnectFailureReported ==
    tpc = "connect_failed" =>
        /\ returned # <<>>
        /\ returned[1].success = FALSE
        /\ returned[1].stats = <<>>
        /\ returned[1].output_path = <<>>
        /\ written = {}
        /\ seen = <<>>

\* process_folder was called with a date bound and returned after the
\* connection failed.
C19_Witness ==
    /\ tpc = "connect_failed"
    /\ end_date # <<>>
    /\ returned # <<>>

\* The process exited.
Exited == mpc = "exited" /\ exit_status # <<>>

\* C20: the extractor CLI exits with a non-zero status when a date flag is
\* invalid, when start > end, or when the run fails because the mail store
\* cannot be connected or the folder resolved; in the first two cases the
\* traversal is never started.
C20_FailuresExitNonZero ==
    Exited =>
        /\ (\/ InvalidFlag(argv.start_date)
            \/ InvalidFlag(argv.end_date)
            \/ StartAfterEnd(FlagDate(argv.start_date), FlagDate(argv.end_date)))
               => (exit_status[1] # 0 /\ tpc = "idle" /\ seen = <<>>)
        /\ tpc = "connect_failed" => exit_status[1] # 0

\* The first two cases alone: rejected flags exit with status 1 and no
\* traversal.
RejectedFlagsExitNonZero ==
    Exited =>
        ((\/ InvalidFlag(argv.start_date)
          \/ InvalidFlag(argv.end_date)
          \/ StartAfterEnd(FlagDate(argv.start_date), FlagDate(argv.end_date)))
            => (exit_status[1] = 1 /\ tpc = "idle" /\ seen = <<>>))

-----------------------------------------------------------------------------
\* Properties of the outputs and of the statistics of a traversal run.

Tables == {"output", "excluded", "errors"}

\* The list of the run each table is written from.
ListOf(table) ==
    CASE table = "output" -> results
      [] table = "excluded" -> excluded_emails
      [] OTHER -> error_emails

\* What a table shows after the run when an earlier run left all three
\* tables in the output directory: this run's rows if the run wrote it,
\* else still the rows of the earlier run.
TableAfterRun(table) ==
    IF table \in written
    THEN [run |-> "this", rows |-> Len(ListOf(table))]
    ELSE [run |-> "earlier", rows |-> 1]

\* C21: every successful traversal run persists three outputs (accepted,
\* excluded and errors), each holding exactly that run's record set, so
\* that after the run no output table still shows records of an earlier
\* run, including when one of the sets is empty.
C21_ThreeOutputsOfThisRun ==
    (tpc = "done" /\ returned # <<>> /\ returned[1].success) =>
        \A table \in Tables :
            TableAfterRun(table) = [run |-> "this", rows |-> Len(ListOf(table))]

\* The tables a run does write hold that run's records.
WrittenTablesOfThisRun ==
    tpc = "done" =>
        \A table \in Tables : table \in written <=> ListOf(table) # <<>>

\* The accepted records with and without tags, and every occurrence of a
\* tag in an accepted record as <<record, position>>.
Tagged == {p \in 1..Len(results) : results[p].error_tags # <<>>}
Untagged == {p \in 1..Len(results) : results[p].error_tags = <<>>}
Occurrences(tag) ==
    {pq \in (1..Len(results)) \X (1..8) :
        /\ pq[2] <= Len(results[pq[1]].error_tags)
        /\ results[pq[1]].error_tags[pq[2]] = tag}
AllErrorTags ==
    {"ERROR_FROM_NAME", "ERROR_FROM_EMAIL", "ERROR_TO", "ERROR_CC",
     "ERROR_DATE", "ERROR_SUBJECT", "ERROR_BODY", "ERROR_ATTACHMENTS",
     "ERROR_LOCATION"}

\* C22: after a traversal's statistics are computed, complete_count equals
\* the number of accepted records with empty error_tags, partial_error_count
\* the number with non-empty error_tags, their sum equals extracted_count,
\* and error_breakdown[tag] equals the number of occurrences of tag across
\* all accepted records.
C22_StatsMatchRecords ==
    tpc = "done" =>
        /\ stats.complete_count = Cardinality(Untagged)
        /\ stats.partial_error_count = Cardinality(Tagged)
        /\ stats.complete_count + stats.partial_error_count
              = stats.extracted_count
        /\ stats.extracted_count = Len(results)
        /\ \A tag \in AllErrorTags :
              IF Occurrences(tag) = {}
              THEN tag \notin DOMAIN stats.error_breakdown
              ELSE /\ tag \in DOMAIN stats.error_breakdown
                   /\ stats.error_breakdown[tag] = Cardinality(Occurrences(tag))
        /\ DOMAIN stats.error_breakdown \subseteq AllErrorTags

\* A finished traversal with a complete record and a partial one.
C22_Witness ==
    /\ tpc = "done"
    /\ Tagged # {}
    /\ Untagged # {}
    /\ \E tag \in DOMAIN stats.error_breakdown : stats.error_breakdown[tag] = 1

-----------------------------------------------------------------------------
\* Properties of the workflow.

\* C23: when the extraction step cannot connect to the mail store or
\* resolve the folder, run_workflow returns 1 and never starts the AI
\* processor on an extractor output file left by an earlier run.
C23_ConnectFailureStopsWorkflow ==
    steps.fate = "connect_failed" =>
        /\ wpc # "processing"
        /\ steps.processor = "not run"
        /\ wret \in {<<>>, <<1>>}

\* The extractor step as run_workflow sees it, the output check and the
\* checkpoint all passed.
ExtractorPassed ==
    IF workflow.skip_extraction
    THEN steps.extractor = "skipped"
    ELSE steps.extractor = "ok"
OutputPassed == steps.output = "ok" /\ outfile.run # "none" /\ outfile.rows >= 1
ReviewPassed ==
    IF workflow.auto_process
    THEN steps.review = "auto"
    ELSE steps.review = "approved"

\* C24: in run_workflow the AI processor step is started only after the
\* extractor step succeeded (or was skipped by skip_extraction), the
\* extractor output exists with at least one record, and the checkpoint was
\* approved (or auto_process is set); run_workflow returns 0 only when all
\* of these and the processor step succeeded, and 1 otherwise.
C24_ProcessorGated ==
    /\ (wpc = "processing" \/ steps.processor # "not run") =>
          ExtractorPassed /\ OutputPassed /\ ReviewPassed
    /\ steps.processor # "not run" => steps.processor_input = outfile
    /\ wpc = "returned" =>
          /\ wret \in {<<0>>, <<1>>}
          /\ wret = <<0>> <=>
                (/\ ExtractorPassed
                 /\ OutputPassed
                 /\ ReviewPassed
                 /\ steps.processor = "ok")
    /\ wpc # "returned" => wret = <<>>

\* A workflow that ran the extractor, asked the user and returned 0 after
\* the processor ran on the table this run wrote.
C24_Witness ==
    /\ wpc = "returned"
    /\ wret = <<0>>
    /\ steps.extractor = "ok"
    /\ steps.fate = "done"
    /\ steps.review = "approved"
    /\ steps.processor_input.run = "this"

-----------------------------------------------------------------------------
\* More properties of the enrichment orchestrator.

\* C25: the accumulating result list is extended only after a whole batch
\* has resolved: at every point during process_all_emails it holds exactly
\* the results of records 0..k-1 in index order, where k is a multiple of
\* CONCURRENCY or the total, so no concurrent call ever writes to it.
C25_ExtendedPerBatch ==
    epc # "idle" =>
        LET k == Len(all_results)
        IN /\ k <= total
           /\ k = total \/ k % concurrency = 0
           /\ \A p \in 1..k :
                 /\ task[p - 1] = "done"
                 /\ all_results[p] = task_result[p - 1]
           /\ \A idx \in Records :
                 task[idx] \in {"created", "inflight"} => idx >= k
           /\ epc = "gather" => k = i

\* In the second batch one call has resolved while another is in flight,
\* and the list still holds the first batch only.
C25_Witness ==
    /\ epc = "gather"
    /\ concurrency = 2
    /\ Len(all_results) = 2
    /\ \E a, b \in Records :
          /\ a >= 2
          /\ b >= 2
          /\ task[a] = "done"
          /\ task[b] = "inflight"

\* The end of the batch that starts at record lo.
EndOfBatch(lo) == IF lo + concurrency < total THEN lo + concurrency ELSE total

\* The batches formed so far cover the records below Batched, each batch
\* a contiguous range that starts at a multiple of CONCURRENCY.
Batched == IF epc = "gather" THEN EndOfBatch(i) ELSE EndOfBatch(i - concurrency)

BatchesPartition ==
    epc # "idle" =>
        /\ i % concurrency = 0
        /\ epc = "gather" =>
              /\ i < total
              /\ Len(batch_indices) = EndOfBatch(i) - i
              /\ \A p \in 1..Len(batch_indices) : batch_indices[p] = i + p - 1
        /\ \A idx \in Records :
              IF i = 0 /\ epc # "gather"
              THEN task[idx] = "none"
              ELSE task[idx] # "none" <=> idx < Batched
        /\ epc = "done" =>
              /\ i >= total
              /\ \A idx \in Records : task[idx] = "done" /\ calls[idx] >= 1

\* C26: for every finite input and every CONCURRENCY >= 1, if every remote
\* call eventually returns or raises, process_all_emails terminates, and
\* the batches it forms partition the record indices 0..n-1 into contiguous
\* ranges so that each record belongs to exactly one batch and none is
\* skipped.
C26_TerminatesAndPartitions ==
    /\ <>(epc = "done")
    /\ []BatchesPartition
    /\ [][i' = i \/ (epc = "gather" /\ i' = i + concurrency)]_vars

\* A finished run whose last batch was shorter than the others.
C26_Witness ==
    /\ epc = "done"
    /\ total > concurrency
    /\ total % concurrency # 0
    /\ Len(all_results) = total

-----------------------------------------------------------------------------
\* Properties of the timestamp of an item.

DateResolved == fpc = "returned" /\ call.fn = "get_date_for_filtering"

\* The positions, in the order received, sent, created, of the accessors
\* that can be read and are not empty.
ReadablePositions(item) == {p \in 1..3 : item[DateAccessors[p]].st = "ok"}

\* C27: get_date_for_filtering returns the first readable, non-empty value
\* among received time, sent time and creation time, tried in that order,
\* with its timezone dropped, and returns None only when none of the three
\* can be read.
C27_FirstReadableDate ==
    DateResolved =>
        LET item == call.args[1]
            readable == ReadablePositions(item)
        IN IF readable = {}
           THEN ret = <<>>
           ELSE LET first == CHOOSE p \in readable : \A q \in readable : p <= q
                IN /\ Len(ret) = 1
                   /\ ret[1].wall = item[DateAccessors[first]].v.wall
                   /\ ret[1].tz = "naive"

\* The received time raises, the sent time is None, and the creation time,
\* which carries a timezone, is returned without it.
C27_Witness ==
    /\ DateResolved
    /\ call.args[1].ReceivedTime.st = "raises"
    /\ call.args[1].SentOn.st = "none"
    /\ call.args[1].CreationTime = Acc("ok", Time(3, "aware"))
    /\ ret = <<Time(3, "naive")>>

-----------------------------------------------------------------------------
\* More properties of the folder traversal.

\* C28: a ProcessingError is produced only when a date filter is active and
\* no timestamp can be read: with neither start_date nor end_date set,
\* errors is empty and filtered_by_date is 0 after any traversal, and no
\* other failure class ever adds an entry to errors.
C28_ErrorsOnlyFromDates ==
    /\ \A p \in 1..Len(seen) :
          seen[p].landed = "errors" =>
              FilterActive /\ seen[p].date = "unreadable"
    /\ Len(error_emails) <= Cardinality(LandedIn("errors"))
    /\ ~FilterActive =>
          /\ error_emails = <<>>
          /\ stats.filtered_by_date = 0
          /\ stats.error_count = 0
          /\ LandedIn("filtered") = {}

\* A finished traversal under a filter with an entry in errors beside an
\* accepted item one of whose other accessors failed.
C28_Witness ==
    /\ tpc = "done"
    /\ FilterActive
    /\ Len(error_emails) = 1
    /\ stats.error_count = 1
    /\ \E p, q \in 1..Len(seen) :
          /\ seen[p].landed = "errors"
          /\ seen[q].landed = "accepted"
          /\ seen[q].other_fails

\* What the first n items visited left in a list, in the order visited.
RECURSIVE KeptIn(_, _)
KeptIn(place, n) ==
    IF n = 0 THEN <<>>
    ELSE KeptIn(place, n - 1)
           \o (IF seen[n].landed = place THEN seen[n].kept ELSE <<>>)

\* C29: traversal keeps provider order: items are visited once each in the
\* provider's iteration order, and each of the accepted, excluded and errors
\* lists is a subsequence of that order.
C29_ProviderOrderKept ==
    tpc \in {"loop", "done"} =>
        /\ stats.total_items = Len(seen)
        /\ results = KeptIn("accepted", Len(seen))
        /\ excluded_emails = KeptIn("excluded", Len(seen))
        /\ error_emails = KeptIn("errors", Len(seen))

\* Two different records were accepted one after the other.
C29_Witness ==
    /\ tpc = "done"
    /\ Len(seen) = 2
    /\ seen[1].landed = "accepted"
    /\ seen[2].landed = "accepted"
    /\ seen[1].kept # seen[2].kept
    /\ results = seen[1].kept \o seen[2].kept

-----------------------------------------------------------------------------
\* Properties of the completion client.

ClientBuilt == fpc = "returned" /\ call.fn = "client" /\ ~ret.exited

\* C30: for every combination of the use_openrouter setting and of the API
\* keys present in the environment, the key given to the completion client
\* belongs to the provider the client is pointed at: an OpenRouter key is
\* used only with the OpenRouter endpoint and an OpenAI key only with the
\* OpenAI endpoint.
C30_KeyMatchesEndpoint ==
    ClientBuilt =>
        /\ ret.api_key = OPENROUTER_KEY => ret.base_url = OPENROUTER_URL
        /\ ret.api_key = OPENAI_KEY => ret.base_url = OPENAI_URL
        /\ ret.api_key \in {OPENROUTER_KEY, OPENAI_KEY}

\* The same when the setting asks for OpenRouter (or leaves the default).
KeyMatchesEndpointByDefault ==
    (ClientBuilt /\ call.args[1] # <<FALSE>>) =>
        /\ ret.api_key = OPENROUTER_KEY => ret.base_url = OPENROUTER_URL
        /\ ret.api_key = OPENAI_KEY => ret.base_url = OPENAI_URL
====
